---------------------------- MODULE Spec2Model ----------------------------
(***************************************************************************)
(* A model of the octollm gateway's processing stages:                     *)
(*   - the chat -> messages stream converter (convertStreamResponse),      *)
(*   - the weighted round-robin load balancer and its retry loop,          *)
(*   - the rule engine,                                                    *)
(*   - the rule composer's (org, model) -> stage cache,                    *)
(*   - the UnifiedBody,                                                    *)
(*   - the streaming pipeline from the HTTP client to the handler,         *)
(*   - a request served by a composed chain with deny rules.               *)
(* Each subsystem has its own variables, actions and specification; a      *)
(* specification leaves the other subsystems' variables at their idle      *)
(* initial value.                                                          *)
(***************************************************************************)
EXTENDS Integers, Sequences, FiniteSets, TLC

VARIABLES
  \* ---- stream converter (ChatCompletionsToClaudeMessages.convertStreamResponse)
  inChunks,      \* the chunks the goroutine has taken from inCh and processed
  upClosed,      \* the upstream producer has closed inCh
  ctxCancelled,  \* ctx.Err() != nil
  convPc,        \* "recv" | "send" | "exit" | "closeOut" | "closed"
  breakAfter,    \* the loop breaks once the events of this chunk are sent
  cv,            \* the goroutine's locals (started, currentBlockIndex, ...)
  sendq,         \* events of the current chunk still to be sent on outCh
  out,           \* events the consumer has received from outCh
  srcClosed,     \* src.Close() has been called
  consumerStopped, \* the consumer has called Close on the converted stream
                 \* and reads outCh no more
  \* ---- load balancer (WeightedRoundRobin)
  backends,      \* l.backends: sequence of [weight, currentWeight]
  wrr,           \* "none" before NewWeightedRoundRobin, then "built" | "error"
  calls,         \* GetNextEngine calls made so far (selection runs)
  selCount,      \* per backend, how often GetNextEngine returned it
  wrrLog,        \* the weights handed to NewWeightedRoundRobin, and the
                 \* backends the last len(backends) GetNextEngine calls chose
  retryMaxCount, \* l.retryMaxCount
  retryTimeout,  \* l.retryTimeout: "zero" or "positive"
  backendFails,  \* per backend: its Process always fails / always succeeds
  lbReq,         \* per request in Process: pc, retryCount, eng, ...
  \* ---- rule engine (RuleEngine.Process)
  chains,        \* e.Chains: chain name -> sequence of rules
  rulePc,        \* "idle" | "match" | "exec" | "done"
  ruleIdx,       \* position of the range loop in currChain
  matcherCalls,  \* rules whose Matcher.Match was invoked, in order
  stageCalls,    \* rules whose Engine.Process was invoked, in order
  ruleResult,    \* what Process returned
  \* ---- composer (RuleComposerFileBased)
  conf,           \* r.conf
  confUpdates,    \* UpdateFromConfig calls that have returned
  orgModelEngine, \* r.orgModelEngine: org -> cached engine of the model
  nextEngine,     \* identity of the next engine object allocated
  compCalls,      \* getEngine calls started
  gr,             \* per goroutine: its getEngine call
  \* ---- body (UnifiedBody)
  bodyPc,         \* "none" before construction, "live" after
  body,           \* the fields of the UnifiedBody
  stream,         \* the io.ReadCloser the body was built from
  lastCall,       \* the last method called and what it returned
  pendingParsed,  \* v of the last SetParsed(v) not followed by SetBytes/SetParser
  parseCalls,     \* parser.Parse calls since bytes or parser were last assigned
  \* ---- streaming pipeline (HTTPEndpoint.Process, RewriteEngine, httpHandler)
  upLines,        \* the lines upstream sends on the response body
  upEnds,         \* upstream ends the body after them (else it stays silent)
  upRead,         \* lines scanner.Scan() has returned
  prodPc,         \* producer: "idle" | "scan" | "send" | "exited"
  bodyBuffer,     \* the producer's bodyBuffer
  metaBuffer,     \* the producer's metaBuffer
  prodChunk,      \* the chunk the producer is sending
  rwPc,           \* rewriter goroutine: "none" | "recv" | "send" | "exited"
  rwChunk,        \* the chunk the rewriter is sending
  hPc,            \* consumer: "idle" | "recv" | "done" | "stopped"
  written,        \* the frames written to the client
  reqCtxDone,     \* req.Context() is done
  streamCtxDone,  \* cancel() of HTTPEndpoint.Process was called
  rwCtxDone,      \* cancel() of RewriteEngine.Process was called
  chClosed,       \* the producer's ch is closed
  respBodyClosed, \* resp.Body.Close() was called
  \* ---- a request served by a composed chain
  sChain,         \* the chain of the rule engine the composer built
  sBackend,       \* what a backend stage answers when invoked
  sPc,            \* "idle" | "rules" | "respond" | "served"
  sIdx,           \* position of the range loop in the chain
  sBackendCalls,  \* backend stages invoked
  sErr,           \* the error engine.Process returned to httpHandler
  client,         \* status and body the client received
  \* ---- moderator stream mode (TextModeratorEngine.Process)
  mEvery,         \* e.ModerateStreamEvery
  mHasReplacement, \* GetReplacementBody returns a body (not nil)
  mPc,            \* "idle" | "recv" | "flush" | "replace" | "closed" | "panicked"
  mRecv,          \* chunks received from originalChunks
  chunkBuffer,    \* the goroutine's chunkBuffer
  chunkCountSinceLast, \* the goroutine's chunkCountSinceLast
  mFailed,        \* moderationFailedErr ("" is nil)
  mFlushed,       \* chunks of chunkBuffer sent by the flush loop
  mOut,           \* chunks received downstream from newChunks
  allowCalls,     \* the calls of ModeratorService.Allow: after which chunk, accepted
  mSrcClosed,     \* originalChunks.Close() was called
  mOutClosed,     \* newChunks is closed
  mCtxDone,       \* ctx is done
  \* ---- concurrent calls on long-lived stages
  rStages,        \* none until the three stages are constructed
  prog,           \* ExprMatcher.prog
  codeOk,         \* whether ExprMatcher.Code compiles
  eClient,        \* HTTPEndpoint.client
  rrBackends,     \* the backends of the WeightedRoundRobin
  mu,             \* the goroutine holding WeightedRoundRobin.mu, 0 when free
  gPc,            \* per goroutine, its position in the stage it called
  \* ---- ProxyClientManager
  pcmPc,          \* per goroutine, its position in GetClient (empty before the constructor)
  pcmArg,         \* per goroutine, the proxyURL of its call
  cliMap,         \* pcm.cliMap
  cliMapKeys,     \* the keys of pcm.cliMap
  pcmClients,     \* the number newClient gives the next client
  pcmMu,          \* the goroutine holding pcm.mu, 0 when free
  pcmGot,         \* the (proxyURL, client) pairs GetClient has returned
  pcmCalls,       \* GetClient calls so far
  \* ---- the non-stream response conversion
  nsResp,         \* the ChatCompletion handed to convertNonStreamResponseBody, empty between calls
  nsMsg,          \* the messages document it returned
  \* ---- the request across the retries of the load balancer
  rtPc,           \* none, loop (inside Process), done
  rtKinds,        \* per backend, the stage in front of its endpoint
  rtFails,        \* per backend, whether its endpoint fails
  rtMax,          \* retryMaxCount
  rtBackends,     \* the backends of the balancer
  rtReq,          \* the *octollm.Request of the call
  rtHanded,       \* per attempt, the backend and the request as it was handed to it
  rtRetry,        \* retryCount
  rtResult,       \* what Process returned
  \* ---- the JSON rewriter
  rwPolicy,       \* the policy of the RewriteJSON call, empty between calls
  rwIn,           \* the body handed to RewriteJSON
  rwOut,          \* the body it returned
  \* ---- the SSE line parser
  ssePc,          \* idle, scan, exited
  sseN,           \* lines read so far
  sseBody,        \* bodyBuffer
  sseMeta,        \* metaBuffer
  sseSince,       \* the lines read since the last blank line
  sseChunk,       \* the last chunk sent, empty before the first
  sseFrom,        \* the lines read between the blank line of that chunk and the one before
  \* ---- the model repository
  repoPc,         \* idle, loop, stored
  repoConf,       \* per model backend, its use and extra_headers
  repoGlobal0,    \* ExtraHeaders of the global backend when UpdateFromConfig started
  repoGlobal,     \* ExtraHeaders of the global backend now
  repoFinal,      \* per processed backend, whether its ExtraHeaders is the map of the global backend, else its own map
  \* ---- the handler adapter
  hhPc,           \* idle, stream, body, middleware, done
  hRes,           \* what engine.Process returned
  hW,             \* the ResponseWriter of the request
  hErr,           \* status of the HandlerError in the request context, or NoHandlerError
  hLeft           \* chunks the stream still delivers

convVars == <<inChunks, upClosed, ctxCancelled, convPc, breakAfter, cv, sendq,
              out, srcClosed, consumerStopped>>

wrrVars == <<backends, wrr, calls, selCount>>
lbVars == <<retryMaxCount, retryTimeout, backendFails, lbReq>>

ruleVars == <<chains, rulePc, ruleIdx, matcherCalls, stageCalls, ruleResult>>

compVars == <<conf, confUpdates, orgModelEngine, nextEngine, compCalls, gr>>

bodyVars == <<bodyPc, body, stream, lastCall, pendingParsed, parseCalls>>

pipeVars == <<upLines, upEnds, upRead, prodPc, bodyBuffer, metaBuffer, prodChunk, rwPc,
              rwChunk, hPc, written, reqCtxDone, streamCtxDone, rwCtxDone,
              chClosed, respBodyClosed>>

serveVars == <<sChain, sBackend, sPc, sIdx, sBackendCalls, sErr, client>>

modVars == <<mEvery, mHasReplacement, mPc, mRecv, chunkBuffer, chunkCountSinceLast, mFailed, mFlushed, mOut, allowCalls, mSrcClosed, mOutClosed, mCtxDone>>

raceVars == <<rStages, prog, codeOk, eClient, rrBackends, mu, gPc>>

pcmVars == <<pcmPc, pcmArg, cliMap, cliMapKeys, pcmClients, pcmMu, pcmGot, pcmCalls>>

nsVars == <<nsResp, nsMsg>>

retryVars == <<rtPc, rtKinds, rtFails, rtMax, rtBackends, rtReq, rtHanded, rtRetry, rtResult>>

rwVars == <<rwPolicy, rwIn, rwOut>>

sseVars == <<ssePc, sseN, sseBody, sseMeta, sseSince, sseChunk, sseFrom>>

repoVars == <<repoPc, repoConf, repoGlobal0, repoGlobal, repoFinal>>

hhVars == <<hhPc, hRes, hW, hErr, hLeft>>

vars == <<convVars, wrrVars, wrrLog, lbVars, ruleVars, compVars, bodyVars, pipeVars,
          serveVars,
          modVars,
          raceVars,
          pcmVars,
          nsVars,
          retryVars,
          rwVars,
          sseVars,
          repoVars,
          hhVars>>

\* What the actions of one subsystem leave alone.
notConv == <<wrrVars, wrrLog, lbVars, ruleVars, compVars, bodyVars, pipeVars,
  serveVars,
  modVars,
  raceVars,
  pcmVars,
  nsVars,
  retryVars,
  rwVars,
  sseVars,
  repoVars,
  hhVars>>
notWrr == <<convVars, lbVars, ruleVars, compVars, bodyVars, pipeVars,
  serveVars,
  modVars,
  raceVars,
  pcmVars,
  nsVars,
  retryVars,
  rwVars,
  sseVars,
  repoVars,
  hhVars>>
notLb == <<convVars, wrrLog, ruleVars, compVars, bodyVars, pipeVars,
  serveVars,
  modVars,
  raceVars,
  pcmVars,
  nsVars,
  retryVars,
  rwVars,
  sseVars,
  repoVars,
  hhVars>>
notRule == <<convVars, wrrVars, wrrLog, lbVars, compVars, bodyVars, pipeVars,
  serveVars,
  modVars,
  raceVars,
  pcmVars,
  nsVars,
  retryVars,
  rwVars,
  sseVars,
  repoVars,
  hhVars>>
notComp == <<convVars, wrrVars, wrrLog, lbVars, ruleVars, bodyVars, pipeVars,
  serveVars,
  modVars,
  raceVars,
  pcmVars,
  nsVars,
  retryVars,
  rwVars,
  sseVars,
  repoVars,
  hhVars>>
notBody == <<convVars, wrrVars, wrrLog, lbVars, ruleVars, compVars, pipeVars,
  serveVars,
  modVars,
  raceVars,
  pcmVars,
  nsVars,
  retryVars,
  rwVars,
  sseVars,
  repoVars,
  hhVars>>
notPipe == <<convVars, wrrVars, wrrLog, lbVars, ruleVars, compVars, bodyVars,
  serveVars,
  modVars,
  raceVars,
  pcmVars,
  nsVars,
  retryVars,
  rwVars,
  sseVars,
  repoVars,
  hhVars>>
notServe == <<convVars, wrrVars, wrrLog, lbVars, ruleVars, compVars, bodyVars, pipeVars,
  modVars,
  raceVars,
  pcmVars,
  nsVars,
  retryVars,
  rwVars,
  sseVars,
  repoVars,
  hhVars>>
notMod == <<convVars, wrrVars, wrrLog, lbVars, ruleVars, compVars, bodyVars, pipeVars, serveVars,
  raceVars,
  pcmVars,
  nsVars,
  retryVars,
  rwVars,
  sseVars,
  repoVars,
  hhVars>>
notRace == <<convVars, wrrVars, wrrLog, lbVars, ruleVars, compVars, bodyVars, pipeVars, serveVars, modVars,
  pcmVars,
  nsVars,
  retryVars,
  rwVars,
  sseVars,
  repoVars,
  hhVars>>
notPcm == <<convVars, wrrVars, wrrLog, lbVars, ruleVars, compVars, bodyVars, pipeVars, serveVars, modVars, raceVars,
  nsVars,
  retryVars,
  rwVars,
  sseVars,
  repoVars,
  hhVars>>
notNs == <<convVars, wrrVars, wrrLog, lbVars, ruleVars, compVars, bodyVars, pipeVars, serveVars, modVars, raceVars, pcmVars,
  retryVars,
  rwVars,
  sseVars,
  repoVars,
  hhVars>>
notRetry == <<convVars, wrrVars, wrrLog, lbVars, ruleVars, compVars, bodyVars, pipeVars, serveVars, modVars, raceVars, pcmVars, nsVars,
  rwVars,
  sseVars,
  repoVars,
  hhVars>>
notRw == <<convVars, wrrVars, wrrLog, lbVars, ruleVars, compVars, bodyVars, pipeVars, serveVars, modVars, raceVars, pcmVars, nsVars, retryVars,
  sseVars,
  repoVars,
  hhVars>>
notSse == <<convVars, wrrVars, wrrLog, lbVars, ruleVars, compVars, bodyVars, pipeVars, serveVars, modVars, raceVars, pcmVars, nsVars, retryVars, rwVars,
  repoVars,
  hhVars>>
notRepo == <<convVars, wrrVars, wrrLog, lbVars, ruleVars, compVars, bodyVars, pipeVars, serveVars, modVars, raceVars, pcmVars, nsVars, retryVars, rwVars, sseVars,
  hhVars>>
notHh == <<convVars, wrrVars, wrrLog, lbVars, ruleVars, compVars, bodyVars, pipeVars, serveVars, modVars, raceVars, pcmVars, nsVars, retryVars, rwVars, sseVars, repoVars>>

\* ------------------------------------------------------------------------
\* Generic helpers
\* ------------------------------------------------------------------------
Last(s) == s[Len(s)]

RECURSIVE SumSeq(_)
SumSeq(s) == IF s = <<>> THEN 0 ELSE Head(s) + SumSeq(Tail(s))

Max(a, b) == IF a >= b THEN a ELSE b

\* ------------------------------------------------------------------------
\* Stream converter
\* ------------------------------------------------------------------------
\* Bounds of the converter model.
MaxChunks == 3          \* chunks upstream sends before [DONE] or closing

\* blockType (part_006:1656-1661)
blockTypeNone == "none"
blockTypeText == "text"
blockTypeTool == "tool"

\* One OpenAI tool-call delta: its index and whether function.arguments is
\* non-empty.
ToolCall(i, a) == [index |-> i, args |-> a]

\* An upstream chunk as the goroutine sees it after chunk.Body.Parsed():
\*   kind "done"  : Parsed() fails with ErrStreamDone ([DONE])
\*   kind "bad"   : Parsed() fails otherwise, or the type assertion fails
\*   kind "chunk" : a *ChatCompletionChunk; choices = len(Choices) > 0,
\*                  content = Delta.Content != "", finish = FinishReason,
\*                  usage = 0 if no usage, else the usage carried
Chunk(choices, content, tcs, finish, usage) ==
  [kind |-> "chunk", choices |-> choices, content |-> content,
   toolCalls |-> tcs, finish |-> finish, usage |-> usage]
DoneChunk == [kind |-> "done", choices |-> FALSE, content |-> FALSE,
              toolCalls |-> <<>>, finish |-> "", usage |-> 0]
BadChunk  == [kind |-> "bad", choices |-> FALSE, content |-> FALSE,
              toolCalls |-> <<>>, finish |-> "", usage |-> 0]

\* The chat chunks upstream may send.
ChatChunks ==
  { Chunk(TRUE, FALSE, <<>>, "", 0),                       \* role-only delta
    Chunk(TRUE, TRUE,  <<>>, "", 0),                       \* text delta
    Chunk(TRUE, TRUE,  <<>>, "", 1),                       \* text + running usage
    Chunk(TRUE, FALSE, <<ToolCall(0, FALSE)>>, "", 0),     \* tool 0 header
    Chunk(TRUE, FALSE, <<ToolCall(0, TRUE)>>, "", 0),      \* tool 0 arguments
    Chunk(TRUE, FALSE, <<ToolCall(1, TRUE)>>, "", 0),      \* tool 1 arguments
    Chunk(TRUE, FALSE, <<ToolCall(0, TRUE), ToolCall(1, TRUE)>>, "", 0),
    Chunk(TRUE, TRUE,  <<ToolCall(0, TRUE)>>, "", 0),      \* text and tool
    Chunk(TRUE, FALSE, <<>>, "stop", 0),
    Chunk(TRUE, FALSE, <<>>, "length", 2),
    Chunk(TRUE, FALSE, <<>>, "tool_calls", 0),
    Chunk(FALSE, FALSE, <<>>, "", 2) }                     \* usage, no choices

\* Events of the messages stream (anthropic.MessageStreamEvent), as uniform
\* records: index is -1 where the event has none.
\* usage is the event's MessageUsage: absent, or input and output tokens.
MessageUsage(inTok, outTok) == [set |-> TRUE, input |-> inTok, output |-> outTok]
NoUsage == [set |-> FALSE, input |-> 0, output |-> 0]

\* An upstream usage u > 0 stands for the openai usage with these counts:
\* the prompt is the same in every chunk, the completion count runs.
PromptTokens(u) == 10
CompletionTokens(u) == u

\* if pendingUsage != nil { msgDelta.Usage = &anthropic.MessageUsage{...} }
DeltaUsage(pu) ==
  IF pu = 0 THEN NoUsage ELSE MessageUsage(PromptTokens(pu), CompletionTokens(pu))

Ev(t, i, k, a, b, u) ==
  [type |-> t, index |-> i, kind |-> k, a |-> a, b |-> b, usage |-> u]
EvMessageStart      == Ev("message_start", -1, "", "", 0, MessageUsage(0, 0))
EvBlockStartText(i) == Ev("content_block_start", i, "text", "", 0, NoUsage)
EvBlockStartTool(i, tci) == Ev("content_block_start", i, "tool_use", "", tci, NoUsage)
EvTextDelta(i)      == Ev("content_block_delta", i, "text_delta", "", 0, NoUsage)
EvInputJSONDelta(i) == Ev("content_block_delta", i, "input_json_delta", "", 0, NoUsage)
EvBlockStop(i)      == Ev("content_block_stop", i, "", "", 0, NoUsage)
EvMessageDelta(sr, pu) == Ev("message_delta", -1, "", sr, 0, DeltaUsage(pu))
EvMessageStop       == Ev("message_stop", -1, "", "", 0, NoUsage)

mapFinishReason(fr) ==
  CASE fr = "stop" -> "end_turn"
    [] fr = "length" -> "max_tokens"
    [] fr = "tool_calls" -> "tool_use"
    [] OTHER -> fr

\* The goroutine's locals before the first chunk (part_006:1650-1666).
\* pendingFinishReason "" and pendingUsage 0 stand for the nil pointers.
ConvLocalsInit ==
  [started |-> FALSE, currentBlockIndex |-> -1,
   currentBlockType |-> blockTypeNone, currentToolCallIndex |-> -1,
   pendingFinishReason |-> "", pendingUsage |-> 0]

\* A step of the chunk handling: the locals and the events sent so far.
St(s, ev) == [s |-> s, ev |-> ev]

\* if !started { send message_start; started = true }
StepStart(x) ==
  IF x.s.started THEN x
  ELSE St([x.s EXCEPT !.started = TRUE], x.ev \o <<EvMessageStart>>)

\* if finishReason != "" { pendingFinishReason = &finishReason }
StepFinish(x, c) ==
  IF c.choices /\ c.finish # ""
  THEN St([x.s EXCEPT !.pendingFinishReason = c.finish], x.ev)
  ELSE x

\* A plausible slip: the first usage seen is kept.
StepUsage_KeepFirst(x, c) ==
  IF c.usage # 0 /\ x.s.pendingUsage = 0
  THEN St([x.s EXCEPT !.pendingUsage = c.usage], x.ev) ELSE x

\* if chunk has usage { pendingUsage = &openaiChunk.Usage }
StepUsage(x, c) ==
  IF c.usage # 0 THEN St([x.s EXCEPT !.pendingUsage = c.usage], x.ev) ELSE x

\* needNewBlock of the text branch
NeedNewTextBlock(s) ==
  s.currentBlockType = blockTypeNone \/ s.currentBlockType = blockTypeTool

\* if deltaContent != "" { ... }
StepText(x, c) ==
  IF ~(c.choices /\ c.content) THEN x
  ELSE IF NeedNewTextBlock(x.s)
       THEN LET stop == IF x.s.currentBlockType # blockTypeNone
                        THEN <<EvBlockStop(x.s.currentBlockIndex)>> ELSE <<>>
                i == x.s.currentBlockIndex + 1
            IN St([x.s EXCEPT !.currentBlockIndex = i,
                              !.currentBlockType = blockTypeText],
                  x.ev \o stop \o <<EvBlockStartText(i), EvTextDelta(i)>>)
       ELSE St(x.s, x.ev \o <<EvTextDelta(x.s.currentBlockIndex)>>)

\* A plausible slip: the comparison of tool-call indices is lost, so a second
\* tool call continues the block of the first.
NeedNewToolBlock_SameTool(s, tc) ==
  \/ s.currentBlockType = blockTypeNone
  \/ s.currentBlockType = blockTypeText

\* needNewBlock of the tool-call branch
NeedNewToolBlock(s, tc) ==
  \/ s.currentBlockType = blockTypeNone
  \/ s.currentBlockType = blockTypeText
  \/ s.currentBlockType = blockTypeTool /\ s.currentToolCallIndex # tc.index

\* the body of `for _, toolCall := range toolCalls`
StepToolCall(x, tc) ==
  LET opened ==
        IF NeedNewToolBlock(x.s, tc)
        THEN LET stop == IF x.s.currentBlockType # blockTypeNone
                         THEN <<EvBlockStop(x.s.currentBlockIndex)>> ELSE <<>>
                 i == x.s.currentBlockIndex + 1
             IN St([x.s EXCEPT !.currentBlockIndex = i,
                               !.currentBlockType = blockTypeTool,
                               !.currentToolCallIndex = tc.index],
                   x.ev \o stop \o <<EvBlockStartTool(i, tc.index)>>)
        ELSE x
  IN IF tc.args
     THEN St(opened.s,
             opened.ev \o <<EvInputJSONDelta(opened.s.currentBlockIndex)>>)
     ELSE opened

RECURSIVE StepToolCalls(_, _)
StepToolCalls(x, tcs) ==
  IF tcs = <<>> THEN x
  ELSE StepToolCalls(StepToolCall(x, Head(tcs)), Tail(tcs))

\* One loop iteration for a parsed chat chunk (part_006:1735-1907).
\* sendEvent cannot fail here: json.Marshal of these events always succeeds.
ProcessChunk(s, c) ==
  LET x1 == StepStart(St(s, <<>>))
      x2 == StepFinish(x1, c)
      x3 == StepUsage(x2, c)
      x4 == StepText(x3, c)
  IN StepToolCalls(x4, IF c.choices THEN c.toolCalls ELSE <<>>)

\* The [DONE] branch (part_006:1681-1725).
ProcessDone(s) ==
  LET stop == IF s.currentBlockType # blockTypeNone
              THEN <<EvBlockStop(s.currentBlockIndex)>> ELSE <<>>
      delta == IF s.pendingFinishReason # ""
               THEN <<EvMessageDelta(mapFinishReason(s.pendingFinishReason),
                                     s.pendingUsage)>>
               ELSE <<>>
  IN St([s EXCEPT !.currentBlockType = blockTypeNone,
                  !.pendingFinishReason = ""],
        stop \o delta \o <<EvMessageStop>>)

NumChatChunks(cs) == Cardinality({i \in 1..Len(cs) : cs[i].kind # "done"})

\* After a chunk's events are queued: send them, or go on at once.
AfterChunk(x, brk) ==
  /\ cv' = x.s
  /\ sendq' = x.ev
  /\ breakAfter' = brk
  /\ convPc' = IF x.ev # <<>> THEN "send" ELSE IF brk THEN "exit" ELSE "recv"

\* `for chunk := range inCh` takes a chunk while ctx is cancelled: break.
ConvRecvCancelled ==
  /\ convPc = "recv" /\ ~upClosed /\ ctxCancelled
  /\ convPc' = "exit"
  /\ UNCHANGED <<inChunks, upClosed, ctxCancelled, breakAfter, cv, sendq, out,
                 srcClosed>>
  /\ UNCHANGED consumerStopped
  /\ UNCHANGED notConv

\* A chat chunk arrives and is converted.
ConvRecvChunk ==
  /\ convPc = "recv" /\ ~upClosed /\ ~ctxCancelled
  /\ NumChatChunks(inChunks) < MaxChunks
  /\ \E c \in ChatChunks :
       /\ inChunks' = Append(inChunks, c)
       /\ AfterChunk(ProcessChunk(cv, c), FALSE)
  /\ UNCHANGED <<upClosed, ctxCancelled, out, srcClosed>>
  /\ UNCHANGED consumerStopped
  /\ UNCHANGED notConv

\* A chunk that does not parse (and is not [DONE]): logged and skipped.
ConvRecvBad ==
  /\ convPc = "recv" /\ ~upClosed /\ ~ctxCancelled
  /\ NumChatChunks(inChunks) < MaxChunks
  /\ inChunks' = Append(inChunks, BadChunk)
  /\ UNCHANGED <<upClosed, ctxCancelled, convPc, breakAfter, cv, sendq, out,
                 srcClosed>>
  /\ UNCHANGED consumerStopped
  /\ UNCHANGED notConv

\* The [DONE] chunk arrives.
ConvRecvDone ==
  /\ convPc = "recv" /\ ~upClosed /\ ~ctxCancelled
  /\ inChunks' = Append(inChunks, DoneChunk)
  /\ AfterChunk(ProcessDone(cv), TRUE)
  /\ UNCHANGED <<upClosed, ctxCancelled, out, srcClosed>>
  /\ UNCHANGED consumerStopped
  /\ UNCHANGED notConv

\* sendEvent: the consumer takes the next event from the unbuffered outCh.
ConvSend ==
  /\ convPc = "send" /\ ~consumerStopped
  /\ out' = Append(out, Head(sendq))
  /\ sendq' = Tail(sendq)
  /\ convPc' = IF Tail(sendq) # <<>> THEN "send"
               ELSE IF breakAfter THEN "exit" ELSE "recv"
  /\ UNCHANGED <<inChunks, upClosed, ctxCancelled, breakAfter, cv, srcClosed>>
  /\ UNCHANGED consumerStopped
  /\ UNCHANGED notConv

\* The upstream producer closes inCh without sending [DONE].
UpstreamClose ==
  /\ ~upClosed
  /\ convPc \in {"recv", "send"}
  /\ upClosed' = TRUE
  /\ UNCHANGED <<inChunks, ctxCancelled, convPc, breakAfter, cv, sendq, out,
                 srcClosed>>
  /\ UNCHANGED consumerStopped
  /\ UNCHANGED notConv

\* `range inCh` ends because inCh is closed.
ConvLoopEnd ==
  /\ convPc = "recv" /\ upClosed
  /\ convPc' = "exit"
  /\ UNCHANGED <<inChunks, upClosed, ctxCancelled, breakAfter, cv, sendq, out,
                 srcClosed>>
  /\ UNCHANGED consumerStopped
  /\ UNCHANGED notConv

\* defer src.Close()
ConvSrcClose ==
  /\ convPc = "exit"
  /\ srcClosed' = TRUE
  /\ convPc' = "closeOut"
  /\ UNCHANGED <<inChunks, upClosed, ctxCancelled, breakAfter, cv, sendq, out>>
  /\ UNCHANGED consumerStopped
  /\ UNCHANGED notConv

\* defer close(outCh)
ConvCloseOut ==
  /\ convPc = "closeOut"
  /\ convPc' = "closed"
  /\ UNCHANGED <<inChunks, upClosed, ctxCancelled, breakAfter, cv, sendq, out,
                 srcClosed>>
  /\ UNCHANGED consumerStopped
  /\ UNCHANGED notConv

\* The request context is cancelled.
CtxCancel ==
  /\ ~ctxCancelled
  /\ convPc # "closed"
  /\ ctxCancelled' = TRUE
  /\ UNCHANGED <<inChunks, upClosed, convPc, breakAfter, cv, sendq, out,
                 srcClosed>>
  /\ UNCHANGED consumerStopped
  /\ UNCHANGED notConv

\* The consumer calls Close on the stream convertStreamResponse returned and
\* stops reading. The stream was made by NewStreamChan(outCh, nil), so Close
\* does nothing.
ConsumerClose ==
  /\ ~consumerStopped
  /\ convPc # "closed"
  /\ consumerStopped' = TRUE
  /\ UNCHANGED <<inChunks, upClosed, ctxCancelled, convPc, breakAfter, cv, sendq,
                 out, srcClosed>>
  /\ UNCHANGED notConv

ConvNext ==
  \/ ConvRecvCancelled
  \/ ConvRecvChunk
  \/ ConvRecvBad
  \/ ConvRecvDone
  \/ ConvSend
  \/ UpstreamClose
  \/ ConvLoopEnd
  \/ ConvSrcClose
  \/ ConvCloseOut
  \/ CtxCancel

\* The converter with a consumer that may stop reading.
ConvLiveNext ==
  \/ ConvRecvCancelled
  \/ ConvRecvChunk
  \/ ConvRecvBad
  \/ ConvRecvDone
  \/ ConvSend
  \/ UpstreamClose
  \/ ConvLoopEnd
  \/ ConvSrcClose
  \/ ConvCloseOut
  \/ CtxCancel
  \/ ConsumerClose


\* ------------------------------------------------------------------------
\* Weighted round-robin load balancer
\* ------------------------------------------------------------------------
\* Bounds of the selection model.
MaxBackends == 2        \* backends handed to NewWeightedRoundRobin
MaxWeight == 3          \* largest configured weight
MaxRounds == 2          \* selections are followed for MaxRounds * W calls
\* Bounds of the retry model.
LBBackends == 2         \* backends of the balancer that Process retries over
LBMaxWeight == 1        \* largest weight of those backends
MaxRetry == 3           \* largest configured retryMaxCount

\* round_robin.go:54: the weight every backend gets when all weights are 0
AllZeroWeight == 100

\* A plausible slip: a list of zero weights is stored as it is.
StoredWeight_AsGiven(ws, i) == ws[i]

\* The values rand.Intn(k) is drawn from: all of 0..k-1 for small k, the
\* ends, their neighbours and the middle for a large one.
RandIntn(k) ==
  IF k <= MaxWeight + 1 THEN 0..(k - 1)
  ELSE {0, 1, k \div 2, k - 2, k - 1}

\* The weight NewWeightedRoundRobin stores for a configured weight.
StoredWeight(ws, i) ==
  IF \A j \in 1..Len(ws) : ws[j] = 0 THEN AllZeroWeight ELSE ws[i]

\* NewWeightedRoundRobin(backends, ...): the results the constructor can
\* return for the weights ws: an error, or a balancer whose currentWeight
\* values are rand.Intn(w + 1).
NewWeightedRoundRobin(ws) ==
  IF Len(ws) = 0 \/ \E i \in 1..Len(ws) : ws[i] < 0
  THEN {[err |-> TRUE, backends |-> <<>>]}
  ELSE LET draws == UNION {RandIntn(StoredWeight(ws, i) + 1) : i \in 1..Len(ws)}
       IN { [err |-> FALSE,
             backends |-> [i \in 1..Len(ws) |->
                             [weight |-> StoredWeight(ws, i),
                              currentWeight |-> c[i]]]] :
            c \in { d \in [1..Len(ws) -> draws] :
                      \A i \in 1..Len(ws) :
                        d[i] \in RandIntn(StoredWeight(ws, i) + 1) } }

\* A plausible slip: the loop compares without advancing currentWeight.
AddWeights_None(bs) == bs

\* backend.currentWeight += backend.weight, for every backend
AddWeights(bs) ==
  [i \in 1..Len(bs) |-> [bs[i] EXCEPT !.currentWeight = @ + bs[i].weight]]

\* totalWeight after the loop
TotalWeight(bs) == SumSeq([i \in 1..Len(bs) |-> bs[i].weight])

\* maxWeightBackend: the loop keeps the first backend whose currentWeight is
\* strictly larger than every earlier one and than 0; 0 stands for nil.
RECURSIVE MaxWeightBackend(_, _, _, _)
MaxWeightBackend(bs, i, maxWeight, maxIdx) ==
  IF i > Len(bs) THEN maxIdx
  ELSE IF bs[i].currentWeight > maxWeight
       THEN MaxWeightBackend(bs, i + 1, bs[i].currentWeight, i)
       ELSE MaxWeightBackend(bs, i + 1, maxWeight, maxIdx)

\* A plausible slip: the winner is debited its own weight, not the total.
DebitWinner_Own(b, totalWeight) == b.currentWeight - b.weight

\* maxWeightBackend.currentWeight -= totalWeight
DebitWinner(b, totalWeight) == b.currentWeight - totalWeight

\* GetNextEngine, run under l.mu: the new backends and the selected backend
\* (0 when it returns nil).
GetNextEngine(bs) ==
  LET added == AddWeights(bs)
      total == TotalWeight(bs)
      m == MaxWeightBackend(added, 1, 0, 0)
  IN IF m = 0 THEN [backends |-> added, sel |-> 0]
     ELSE [backends |->
             [added EXCEPT ![m].currentWeight = DebitWinner(added[m], total)],
           sel |-> m]

\* The weight lists a configuration can hand to the constructor (a weight of
\* -1 stands for any negative weight).
WeightLists ==
  UNION { [1..n -> -1..MaxWeight] : n \in 0..MaxBackends }

WrrLogOf(ws, recent) == [weights |-> ws, recent |-> recent]

\* The last n entries of recent followed by sel.
Recent(recent, sel, n) ==
  LET all == Append(recent, sel)
  IN IF Len(all) <= n THEN all ELSE SubSeq(all, Len(all) - n + 1, Len(all))

\* NewWeightedRoundRobin is called with a weight list.
WrrNew ==
  /\ wrr = "none"
  /\ \E ws \in WeightLists :
       /\ \E r \in NewWeightedRoundRobin(ws) :
            /\ wrr' = IF r.err THEN "error" ELSE "built"
            /\ backends' = r.backends
            /\ selCount' = [i \in 1..Len(r.backends) |-> 0]
       /\ wrrLog' = WrrLogOf(ws, <<>>)
  /\ UNCHANGED calls
  /\ UNCHANGED notWrr

\* One call of GetNextEngine by a single caller.
WrrGetNextEngine ==
  /\ wrr = "built"
  /\ calls < MaxRounds * TotalWeight(backends)
  /\ LET r == GetNextEngine(backends)
     IN /\ backends' = r.backends
        /\ selCount' = IF r.sel = 0 THEN selCount
                       ELSE [selCount EXCEPT ![r.sel] = @ + 1]
        /\ wrrLog' = [wrrLog EXCEPT
                        !.recent = Recent(@, r.sel, Len(backends))]
  /\ calls' = calls + 1
  /\ UNCHANGED wrr
  /\ UNCHANGED notWrr

WrrNext == WrrNew \/ WrrGetNextEngine

\* C3: for weights w1..wn (not all zero) with total W and every initial
\* currentWeight the constructor can produce, the first k*W GetNextEngine
\* calls select backend i exactly k*w_i times, for every k >= 1.
C3_WeightedFairness ==
  wrr = "built" =>
    \A k \in 1..MaxRounds :
      calls = k * TotalWeight(backends) =>
        \A i \in 1..Len(backends) : selCount[i] = k * backends[i].weight

\* C3 witness: two full rounds over backends of different positive weights.
C3_Witness ==
  /\ wrr = "built" /\ Len(backends) >= 2
  /\ calls = 2 * TotalWeight(backends)
  /\ backends[1].weight > backends[2].weight /\ backends[2].weight > 0
  /\ selCount[1] = 2 * backends[1].weight

\* C25: NewWeightedRoundRobin returns an error and no balancer exactly when
\* the list is empty or holds a negative weight; when every weight is zero
\* all backends get the same positive weight, and each of the n backends is
\* selected exactly once in every n consecutive selections.
C25_ConstructorAndEqualWeights ==
  wrr # "none" =>
    LET ws == wrrLog.weights
        n == Len(ws)
    IN /\ wrr = "error" <=> (n = 0 \/ \E i \in 1..n : ws[i] < 0)
       /\ wrr = "error" => backends = <<>>
       /\ wrr = "built" => Len(backends) = n
       /\ (wrr = "built" /\ \A i \in 1..n : ws[i] = 0) =>
            /\ \A i \in 1..n : backends[i].weight = backends[1].weight
            /\ backends[1].weight > 0
            /\ Len(wrrLog.recent) = n =>
                 {wrrLog.recent[i] : i \in 1..n} = 1..n

\* C25 witness: two backends of weight zero, the second drawn with the
\* larger currentWeight, after five selections.
C25_Witness ==
  /\ wrr = "built" /\ wrrLog.weights = <<0, 0>>
  /\ calls = 5
  /\ wrrLog.recent = <<1, 2>>
  /\ backends[1].weight = AllZeroWeight

\* ---- the retry loop of WeightedRoundRobin.Process
Requests == {"r1", "r2"}

LbReqInit ==
  [pc |-> "select", retryCount |-> 0, eng |-> 0, attempts |-> 0,
   failedCalls |-> 0, timedOut |-> FALSE, result |-> "none"]

\* A balancer is built over LBBackends backends and handed to the requests.
LbNew ==
  /\ wrr = "none"
  /\ \E ws \in [1..LBBackends -> 1..LBMaxWeight] :
       /\ \E r \in NewWeightedRoundRobin(ws) : backends' = r.backends
       /\ selCount' = [i \in 1..Len(ws) |-> 0]
  /\ wrr' = "built"
  /\ retryMaxCount' \in 0..MaxRetry
  /\ retryTimeout' \in {"zero", "positive"}
  /\ backendFails' \in [1..LBBackends -> BOOLEAN]
  /\ lbReq' = [r \in Requests |-> LbReqInit]
  /\ UNCHANGED calls
  /\ UNCHANGED notLb

\* n, eng := l.GetNextEngine()
LbGetNextEngine(r) ==
  /\ lbReq # <<>> /\ lbReq[r].pc = "select"
  /\ LET g == GetNextEngine(backends)
     IN /\ backends' = g.backends
        /\ selCount' = IF g.sel = 0 THEN selCount
                       ELSE [selCount EXCEPT ![g.sel] = @ + 1]
        /\ lbReq' = [lbReq EXCEPT ![r].eng = g.sel, ![r].pc = "call"]
  /\ calls' = calls + 1
  /\ UNCHANGED <<wrr, retryMaxCount, retryTimeout, backendFails>>
  /\ UNCHANGED notLb

\* A plausible slip: retryCount > l.retryMaxCount
RetryMaxReached_Off(retryCount) == retryCount > retryMaxCount

\* if retryCount >= l.retryMaxCount { return resp, err }
RetryMaxReached(retryCount) == retryCount >= retryMaxCount

\* resp, err := eng.Process(req) returns nil error: return resp, nil
LbCallOk(r) ==
  /\ lbReq # <<>> /\ lbReq[r].pc = "call" /\ lbReq[r].eng # 0
  /\ ~backendFails[lbReq[r].eng]
  /\ lbReq' = [lbReq EXCEPT ![r].attempts = @ + 1, ![r].result = "ok",
                            ![r].pc = "done"]
  /\ UNCHANGED <<wrrVars, retryMaxCount, retryTimeout, backendFails>>
  /\ UNCHANGED notLb

\* eng.Process(req) fails: retryCount++, then the timeout check, then the
\* count check, else the loop goes round. time.Since(start) >= 0 always, so
\* a zero retryTimeout has always expired; a positive one may have.
LbCallFail(r) ==
  /\ lbReq # <<>> /\ lbReq[r].pc = "call" /\ lbReq[r].eng # 0
  /\ backendFails[lbReq[r].eng]
  /\ \E expired \in BOOLEAN :
       /\ retryTimeout = "zero" => expired
       /\ LET rc == lbReq[r].retryCount + 1
              stop == expired \/ RetryMaxReached(rc)
          IN lbReq' = [lbReq EXCEPT
                         ![r].attempts = @ + 1,
                         ![r].failedCalls = @ + 1,
                         ![r].retryCount = rc,
                         ![r].timedOut = expired,
                         ![r].result = IF stop THEN "err" ELSE @,
                         ![r].pc = IF stop THEN "done" ELSE "select"]
  /\ UNCHANGED <<wrrVars, retryMaxCount, retryTimeout, backendFails>>
  /\ UNCHANGED notLb

LbNext ==
  \/ LbNew
  \/ \E r \in Requests : LbGetNextEngine(r) \/ LbCallOk(r) \/ LbCallFail(r)

\* C4 (as claimed): the number of backend Process invocations made for a
\* request is at most retryMaxCount, for every retryMaxCount including 0.
C4_Original ==
  \A r \in DOMAIN lbReq : lbReq[r].attempts <= retryMaxCount

\* C4 (amended): the number of backend Process invocations made for a request
\* is at most retryMaxCount when retryMaxCount >= 1, and exactly one attempt
\* is made when retryMaxCount is 0.
C4_AttemptsBounded ==
  \A r \in DOMAIN lbReq :
    /\ lbReq[r].attempts <= Max(1, retryMaxCount)
    /\ lbReq[r].pc = "done" => lbReq[r].attempts >= 1

\* C4 witness: a request has used up a retryMaxCount of at least 2.
C4_Witness ==
  \E r \in DOMAIN lbReq :
    /\ lbReq[r].pc = "done" /\ lbReq[r].result = "err"
    /\ retryMaxCount >= 2 /\ lbReq[r].attempts = retryMaxCount
    /\ ~lbReq[r].timedOut

\* C5 (as claimed): two backends of equal weight, the first always failing
\* and the second always succeeding, retryMaxCount >= 2, timeout not
\* reached: every Process call returns the successful response, also under
\* concurrent requests, and the failing backend is invoked at most
\* retryMaxCount - 1 times per request.
C5_RetryReachesHealthy ==
  ( /\ lbReq # <<>> /\ Len(backends) = 2
    /\ backends[1].weight = backends[2].weight
    /\ backendFails[1] /\ ~backendFails[2]
    /\ retryMaxCount >= 2 ) =>
    \A r \in DOMAIN lbReq :
      /\ lbReq[r].failedCalls <= retryMaxCount - 1 \/ lbReq[r].timedOut
      /\ (lbReq[r].pc = "done" /\ ~lbReq[r].timedOut) => lbReq[r].result = "ok"

\* ------------------------------------------------------------------------
\* Rule engine
\* ------------------------------------------------------------------------
\* Bound of the rule engine model.
MaxRules == 3           \* rules of the default chain

\* A rule as one request sees it: what its matcher answers and how its stage
\* ends: "ok", "continue" (an error in which errors.As finds an
\* *ErrWithAction with the action RuleEngineActionContinue), "action" (an
\* *ErrWithAction with another action) or "error" (an error without an
\* *ErrWithAction).
RuleOf(m, o) == [match |-> m, outcome |-> o]
Rules ==
  {RuleOf(m, o) : m \in BOOLEAN, o \in {"ok", "continue", "action", "error"}}

RuleChains(n) == UNION { [1..k -> Rules] : k \in 0..n }

\* e.Chains: any of the keys "default" and "" may be present.
ChainMaps ==
  { [k \in {} |-> <<>>] }
  \cup { [k \in {"default"} |-> c] : c \in RuleChains(MaxRules) }
  \cup { [k \in {""} |-> c] : c \in RuleChains(MaxRules) }
  \cup { [k \in {"default", ""} |-> IF k = "default" THEN c ELSE d] :
           c \in RuleChains(MaxRules), d \in RuleChains(1) }

\* currChain, ok := e.Chains["default"]; if !ok { currChain, ok = e.Chains[""] }
HasRuleChain(cm) == "default" \in DOMAIN cm \/ "" \in DOMAIN cm
CurrChain(cm) == IF "default" \in DOMAIN cm THEN cm["default"] ELSE cm[""]

RuleRes(kind, rule, err) == [kind |-> kind, rule |-> rule, err |-> err]
RuleNoResult == RuleRes("none", 0, "")

\* A plausible slip: the `!` of the match test is lost.
MatcherMatches_Negated(r) == ~r.match

\* r.Matcher.Match(req)
MatcherMatches(r) == r.match

\* A plausible slip: every *ErrWithAction lets the chain go on.
ContinuesChain_AnyAction(o) == o \in {"continue", "action"}

\* errors.As(err, &eAct) and case RuleEngineActionContinue
ContinuesChain(o) == o = "continue"

\* Process is called on an engine with some chain map; without a default
\* chain it returns ErrNoRuleChain at once.
RuleProcessStart ==
  /\ rulePc = "idle"
  /\ \E cm \in ChainMaps :
       /\ chains' = cm
       /\ IF HasRuleChain(cm)
          THEN /\ rulePc' = "match"
               /\ ruleResult' = RuleNoResult
          ELSE /\ rulePc' = "done"
               /\ ruleResult' = RuleRes("err", 0, "ErrNoRuleChain")
  /\ ruleIdx' = 1
  /\ UNCHANGED <<matcherCalls, stageCalls>>
  /\ UNCHANGED notRule

\* The loop reaches the next rule and asks its matcher.
RuleMatch ==
  /\ rulePc = "match"
  /\ ruleIdx <= Len(CurrChain(chains))
  /\ matcherCalls' = Append(matcherCalls, ruleIdx)
  /\ IF MatcherMatches(CurrChain(chains)[ruleIdx])
     THEN rulePc' = "exec" /\ ruleIdx' = ruleIdx
     ELSE rulePc' = "match" /\ ruleIdx' = ruleIdx + 1
  /\ UNCHANGED <<chains, stageCalls, ruleResult>>
  /\ UNCHANGED notRule

\* resp, err := r.Engine.Process(req) and what the loop does with the result.
RuleExec ==
  /\ rulePc = "exec"
  /\ stageCalls' = Append(stageCalls, ruleIdx)
  /\ LET o == CurrChain(chains)[ruleIdx].outcome
     IN CASE o = "ok" ->
               /\ rulePc' = "done"
               /\ ruleResult' = RuleRes("resp", ruleIdx, "")
               /\ ruleIdx' = ruleIdx
          [] o # "ok" /\ ContinuesChain(o) ->
               /\ rulePc' = "match"
               /\ ruleIdx' = ruleIdx + 1
               /\ ruleResult' = ruleResult
          [] OTHER ->
               /\ rulePc' = "done"
               /\ ruleResult' = RuleRes("err", ruleIdx, "ErrRuleActionError")
               /\ ruleIdx' = ruleIdx
  /\ UNCHANGED <<chains, matcherCalls>>
  /\ UNCHANGED notRule

\* The loop ends without a response: return nil, ErrNoRuleMatched.
RuleExhausted ==
  /\ rulePc = "match"
  /\ ruleIdx > Len(CurrChain(chains))
  /\ rulePc' = "done"
  /\ ruleResult' = RuleRes("err", 0, "ErrNoRuleMatched")
  /\ UNCHANGED <<chains, ruleIdx, matcherCalls, stageCalls>>
  /\ UNCHANGED notRule

RuleNext == RuleProcessStart \/ RuleMatch \/ RuleExec \/ RuleExhausted

\* The first rule of the chain whose matcher answers true (0: none).
FirstMatch(ch) ==
  IF \E i \in 1..Len(ch) : ch[i].match
  THEN CHOOSE i \in 1..Len(ch) : ch[i].match /\ \A j \in 1..(i - 1) : ~ch[j].match
  ELSE 0

\* C6: Process evaluates the rules in order and delegates to the stage of
\* the first rule whose matcher returns true; when that stage succeeds its
\* response is returned, no later rule's matcher or stage is invoked, and no
\* stage of an earlier (non-matching) rule is invoked.
C6_FirstMatchWins ==
  (rulePc = "done" /\ HasRuleChain(chains)) =>
    LET ch == CurrChain(chains)
        f == FirstMatch(ch)
    IN /\ \A i \in 1..Len(stageCalls) : ch[stageCalls[i]].match
       /\ \A i \in 1..Len(matcherCalls) : matcherCalls[i] = i
       /\ f # 0 => (stageCalls # <<>> /\ stageCalls[1] = f)
       /\ (f # 0 /\ ch[f].outcome = "ok") =>
            /\ ruleResult = RuleRes("resp", f, "")
            /\ stageCalls = <<f>>
            /\ matcherCalls = [i \in 1..f |-> i]

\* C33: when a matched rule's stage fails with an error tagged with the
\* continue action the chain goes on with the next rule in order; when it
\* fails with any other error the chain stops at once with that error
\* (wrapped) and no later rule is evaluated; when the chain is exhausted
\* without a successful stage the result is ErrNoRuleMatched, and when
\* neither a "default" nor a "" chain exists it is ErrNoRuleChain.
C33_ContinueAndStop ==
  rulePc = "done" =>
    IF ~HasRuleChain(chains)
    THEN /\ ruleResult = RuleRes("err", 0, "ErrNoRuleChain")
         /\ matcherCalls = <<>> /\ stageCalls = <<>>
    ELSE LET ch == CurrChain(chains)
             last == matcherCalls[Len(matcherCalls)]
         IN /\ \A i \in 1..Len(matcherCalls) : matcherCalls[i] = i
            /\ \A i \in 1..Len(stageCalls) :
                 LET st == stageCalls[i]
                 IN /\ ch[st].outcome = "continue" =>
                         \/ st = Len(ch)
                         \/ \E k \in 1..Len(matcherCalls) : matcherCalls[k] = st + 1
                    /\ ch[st].outcome \in {"action", "error"} =>
                         /\ ruleResult = RuleRes("err", st, "ErrRuleActionError")
                         /\ i = Len(stageCalls) /\ last = st
            /\ ruleResult = RuleRes("err", 0, "ErrNoRuleMatched") <=>
                 \A i \in 1..Len(ch) : ch[i].match => ch[i].outcome = "continue"
            /\ ruleResult = RuleRes("err", 0, "ErrNoRuleMatched") =>
                 /\ Len(matcherCalls) = Len(ch)
                 /\ stageCalls = SelectSeq([i \in 1..Len(ch) |-> i],
                                           LAMBDA i : ch[i].match)

\* C33 witness: the first rule's stage fails with the continue action, the
\* second rule's stage with an *ErrWithAction of another action; a third
\* rule that matches is behind it.
C33_Witness ==
  /\ rulePc = "done" /\ HasRuleChain(chains)
  /\ Len(CurrChain(chains)) = 3
  /\ CurrChain(chains)[1] = RuleOf(TRUE, "continue")
  /\ CurrChain(chains)[2] = RuleOf(TRUE, "action")
  /\ CurrChain(chains)[3] = RuleOf(TRUE, "ok")
  /\ stageCalls = <<1, 2>>
  /\ ruleResult = RuleRes("err", 2, "ErrRuleActionError")

\* C6 witness: the second rule is the first match and succeeds, with a
\* non-matching rule before it and a matching rule after it.
C6_Witness ==
  /\ rulePc = "done" /\ HasRuleChain(chains)
  /\ Len(CurrChain(chains)) = 3
  /\ ~CurrChain(chains)[1].match /\ CurrChain(chains)[2].match
  /\ CurrChain(chains)[3].match
  /\ ruleResult = RuleRes("resp", 2, "")

\* ------------------------------------------------------------------------
\* Composer
\* ------------------------------------------------------------------------
\* Bounds of the composer model.
MaxConfUpdates == 2     \* UpdateFromConfig calls (the first one at startup)
MaxGetEngine == 3       \* getEngine calls over all goroutines

\* Organisations as the authentication layer reports them; "" is the caller
\* without an organisation. One model name is requested.
Orgs == {"", "a"}
Goroutines == {"g1", "g2"}

\* What a configuration says about the requested model: whether it is listed
\* and with which access, which orgs have a users entry for it, and whether
\* it has default rules. Users entries carry no rules of their own here.
ConfOf(access, users, rules) == [access |-> access, users |-> users, rules |-> rules]
Configs ==
  { ConfOf(a, u, r) : a \in {"absent", "public", "internal", "private"},
                      u \in SUBSET Orgs, r \in BOOLEAN }
NoConf == ConfOf("absent", {}, FALSE)

\* An engine object: its identity, the configuration it was composed from,
\* its root ("pool": the default load balancer, "rules": a rule engine) and
\* whether the default engine handed to the fallback rule is nil.
EngineOf(id, c, root, nilDefault) ==
  [id |-> id, conf |-> c, root |-> root, nilDefault |-> nilDefault]
NoEngine == EngineOf(0, NoConf, "none", FALSE)

GetRes(kind, e) == [kind |-> kind, engine |-> e]
GrIdle == [pc |-> "idle", org |-> "", engine |-> NoEngine,
           res |-> GetRes("none", NoEngine), startedAt |-> 0]

\* hasOrgModelConf: the users lookup is made only for a non-empty org.
HasOrgModelConf(c, org) == org # "" /\ org \in c.users

\* A plausible slip: a private model is treated like an internal one.
AccessDenied_PrivateAsInternal(c, org) ==
  \/ c.access = "internal" /\ org = ""
  \/ c.access = "private" /\ org = ""

\* switch model.Access: the two cases that return 401
AccessDenied(c, org) ==
  \/ c.access = "internal" /\ org = ""
  \/ c.access = "private" /\ ~HasOrgModelConf(c, org)

\* The part of getEngine that runs between the two critical sections, on the
\* configuration read under the read lock. pool: whether the model repository
\* yields a default load balancer for the model.
BuildEngine(c, org, pool, id) ==
  IF c.access = "absent" THEN GetRes("404", NoEngine)
  ELSE IF AccessDenied(c, org) THEN GetRes("401", NoEngine)
  ELSE IF ~c.rules
       THEN IF ~pool THEN GetRes("builderr", NoEngine)
            ELSE GetRes("engine", EngineOf(id, c, "pool", FALSE))
       ELSE GetRes("engine", EngineOf(id, c, "rules", ~pool))

\* UpdateFromConfig stores the configuration under the write lock and
\* touches nothing else.
\* The call made at startup, before any request is served.
LoadConfig ==
  /\ confUpdates = 0
  /\ \E c \in Configs : conf' = c
  /\ confUpdates' = 1
  /\ UNCHANGED <<orgModelEngine, nextEngine, compCalls, gr>>
  /\ UNCHANGED notComp

\* A later call: the configuration is replaced while requests are served.
UpdateFromConfig ==
  /\ confUpdates >= 1 /\ confUpdates < MaxConfUpdates
  /\ \E c \in Configs : conf' = c
  /\ confUpdates' = confUpdates + 1
  /\ UNCHANGED <<orgModelEngine, nextEngine, compCalls, gr>>
  /\ UNCHANGED notComp

\* getEngine, first critical section, cache hit: the cached engine is returned.
GetEngineHit(g) ==
  /\ confUpdates >= 1 /\ compCalls < MaxGetEngine
  /\ gr[g].pc \in {"idle", "done"}
  /\ \E org \in Orgs :
       /\ orgModelEngine[org] # NoEngine
       /\ gr' = [gr EXCEPT ![g] = [pc |-> "done", org |-> org, engine |-> NoEngine,
                                   res |-> GetRes("engine", orgModelEngine[org]),
                                   startedAt |-> confUpdates]]
  /\ compCalls' = compCalls + 1
  /\ UNCHANGED <<conf, confUpdates, orgModelEngine, nextEngine>>
  /\ UNCHANGED notComp

\* getEngine, first critical section, cache miss: r.conf is read, the lock is
\* released, and the engine is composed from that configuration; an error
\* returns at once, an engine waits for the write lock.
GetEngineMiss(g) ==
  /\ confUpdates >= 1 /\ compCalls < MaxGetEngine
  /\ gr[g].pc \in {"idle", "done"}
  /\ \E org \in Orgs, pool \in BOOLEAN :
       /\ orgModelEngine[org] = NoEngine
       /\ LET b == BuildEngine(conf, org, pool, nextEngine)
          IN IF b.kind = "engine"
             THEN /\ gr' = [gr EXCEPT ![g] = [pc |-> "insert", org |-> org,
                                              engine |-> b.engine,
                                              res |-> GetRes("none", NoEngine),
                                              startedAt |-> confUpdates]]
                  /\ nextEngine' = nextEngine + 1
             ELSE /\ gr' = [gr EXCEPT ![g] = [pc |-> "done", org |-> org,
                                              engine |-> NoEngine, res |-> b,
                                              startedAt |-> confUpdates]]
                  /\ nextEngine' = nextEngine
  /\ compCalls' = compCalls + 1
  /\ UNCHANGED <<conf, confUpdates, orgModelEngine>>
  /\ UNCHANGED notComp

\* r.orgModelEngine[orgName][modelName] = engine
InsertEngine(cache, org, e) == [cache EXCEPT ![org] = e]

\* getEngine, second critical section: the engine is stored and returned.
GetEngineInsert(g) ==
  /\ gr[g].pc = "insert"
  /\ orgModelEngine' = InsertEngine(orgModelEngine, gr[g].org, gr[g].engine)
  /\ gr' = [gr EXCEPT ![g].pc = "done",
                      ![g].res = GetRes("engine", orgModelEngine'[gr[g].org])]
  /\ UNCHANGED <<conf, confUpdates, nextEngine, compCalls>>
  /\ UNCHANGED notComp

\* The composer under one configuration.
CompFixedNext ==
  \/ LoadConfig
  \/ \E g \in Goroutines : GetEngineHit(g)
  \/ \E g \in Goroutines : GetEngineMiss(g)
  \/ \E g \in Goroutines : GetEngineInsert(g)

\* The composer with configuration reloads.
CompNext ==
  \/ LoadConfig
  \/ UpdateFromConfig
  \/ \E g \in Goroutines : GetEngineHit(g)
  \/ \E g \in Goroutines : GetEngineMiss(g)
  \/ \E g \in Goroutines : GetEngineInsert(g)

\* The 401 condition as the claim words it: the users lookup counts for
\* every org, the empty one included.
ClaimedDenied(c, org) ==
  \/ c.access = "internal" /\ org = ""
  \/ c.access = "private" /\ org \notin c.users

\* C7 (as claimed): under a fixed configuration getEngine fails with 401
\* exactly when the model is internal and org is empty, or the model is
\* private and the users section has no entry for (org, model).
C7_Original ==
  \A g \in Goroutines :
    gr[g].pc = "done" =>
      (gr[g].res.kind = "401" <=> ClaimedDenied(conf, gr[g].org))

\* C7 (amended): under a fixed configuration getEngine fails with 401
\* exactly when the model is internal and org is empty, or the model is
\* private and org is empty or has no users entry for the model; a public
\* model never fails with 401, for any org including the empty one.
C7_AccessControl ==
  \A g \in Goroutines :
    gr[g].pc = "done" =>
      /\ gr[g].res.kind = "401" <=>
            \/ conf.access = "internal" /\ gr[g].org = ""
            \/ conf.access = "private"
                 /\ (gr[g].org = "" \/ gr[g].org \notin conf.users)
      /\ conf.access = "public" => gr[g].res.kind # "401"

\* C7 witness: a private model with a users entry for another org has
\* rejected with 401 a named org that has no entry.
C7_Witness ==
  \E g \in Goroutines :
    /\ gr[g].pc = "done" /\ gr[g].res.kind = "401"
    /\ conf.access = "private" /\ gr[g].org = "a" /\ conf.users = {""}

\* C8: after UpdateFromConfig(newConf) has returned, every getEngine call
\* that starts later returns a stage built from newConf, never a stage cached
\* under an earlier configuration, and an org that has no access under
\* newConf gets 401.
C8_ReloadInvalidatesCache ==
  \A g \in Goroutines :
    (gr[g].pc = "done" /\ gr[g].startedAt = confUpdates) =>
      /\ gr[g].res.kind = "engine" => gr[g].res.engine.conf = conf
      /\ AccessDenied(conf, gr[g].org) => gr[g].res.kind = "401"

\* C9: under one configuration all getEngine calls for the same key return
\* the same engine instance, also when they miss the cache concurrently.
C9_OneInstancePerKey ==
  \A g, h \in Goroutines :
    ( /\ gr[g].pc = "done" /\ gr[h].pc = "done"
      /\ gr[g].org = gr[h].org
      /\ gr[g].res.kind = "engine" /\ gr[h].res.kind = "engine" ) =>
      gr[g].res.engine.id = gr[h].res.engine.id

\* C29: every root stage getEngine returns for a model with at least one
\* rule is a rule chain whose fallback rule holds a usable (non-nil)
\* default-pool stage, so the chain never ends in a call on a missing stage.
C29_FallbackHasDefaultPool ==
  \A g \in Goroutines :
    (gr[g].res.kind = "engine" /\ gr[g].res.engine.conf.rules) =>
      /\ gr[g].res.engine.root = "rules"
      /\ ~gr[g].res.engine.nilDefault

\* ------------------------------------------------------------------------
\* Body
\* ------------------------------------------------------------------------
\* Bounds of the body model.
MaxFieldValue == 1      \* values of the one field of a document
MaxParseCalls == 2      \* parser.Parse calls counted per assignment
MaxCloses == 2          \* repeated Close calls on the inbound stream
MaxReads == 2           \* reads of the inbound stream through handed-out readers

\* Byte strings. A document {"f": n} may be written with or without
\* insignificant white space; the other byte strings are the nil slice, the
\* empty slice, text that is not JSON and the stream end marker.
BytesOf(kind, f, n, ws) == [kind |-> kind, f |-> f, n |-> n, ws |-> ws]
NilBytes == BytesOf("nil", "", 0, FALSE)
EmptyBytes == BytesOf("empty", "", 0, FALSE)
GarbageBytes == BytesOf("garbage", "", 0, FALSE)
DoneBytes == BytesOf("[DONE]", "", 0, FALSE)
Doc(f, n, ws) == BytesOf("doc", f, n, ws)
Docs == { Doc(f, n, ws) : f \in {"a", "b"}, n \in 1..MaxFieldValue, ws \in BOOLEAN }
WireBytes == Docs \cup {EmptyBytes, GarbageBytes, DoneBytes}

\* Parsed values: a pointer to a T with one field, or nil. Two parsers,
\* JSONParser[A] and JSONParser[B]; A has the field "a", B the field "b".
Parsers == {"A", "B"}
FieldOf(p) == IF p = "A" THEN "a" ELSE "b"
Val(t, n) == [t |-> t, n |-> n]
NilVal == Val("nil", 0)
Vals == { Val(t, n) : t \in Parsers, n \in 0..MaxFieldValue }

\* JSONParser[T].Parse: json.Unmarshal ignores white space and unknown
\* fields and leaves an absent field zero; "[DONE]" gives ErrStreamDone.
Parse(p, b) ==
  CASE b.kind = "doc" ->
         [val |-> Val(p, IF b.f = FieldOf(p) THEN b.n ELSE 0), err |-> ""]
    [] b.kind = "[DONE]" -> [val |-> NilVal, err |-> "ErrStreamDone"]
    [] OTHER -> [val |-> NilVal, err |-> "json"]

\* JSONParser[T].Serialize: json.Marshal of a *T, an error for anything else.
Serialize(p, v) ==
  IF v.t = p
  THEN [bytes |-> Doc(FieldOf(p), v.n, FALSE), err |-> ""]
  ELSE [bytes |-> NilBytes, err |-> "value is not a pointer to T"]

\* The reader handed to NewBodyFromReader: what it holds, whether reading it
\* fails, whether it was read to the end and whether it was closed.
\* reads and closes count the successful reads to the end and the Close calls.
StreamOf(data, fails) ==
  [data |-> data, fails |-> fails, drained |-> FALSE, closed |-> FALSE,
   reads |-> 0, closes |-> 0]
NoStream == StreamOf(NilBytes, FALSE)

\* io.ReadAll(b.reader)
ReadAll(st) ==
  IF st.fails \/ st.closed
  THEN [bytes |-> NilBytes, err |-> "read", stream |-> st]
  ELSE [bytes |-> IF st.drained THEN EmptyBytes ELSE st.data, err |-> "",
        stream |-> [st EXCEPT !.drained = TRUE, !.reads = @ + 1]]

\* b.reader.Close()
CloseStream(st) == [st EXCEPT !.closed = TRUE, !.closes = @ + 1]

BodyOf(reader, bytes, parser) ==
  [reader |-> reader, bytes |-> bytes, parsed |-> NilVal, parser |-> parser,
   parseErr |-> "", isDirty |-> FALSE]
NoBody == BodyOf(FALSE, NilBytes, "A")

CallOf(op, val, bytes, err) == [op |-> op, val |-> val, bytes |-> bytes, err |-> err]
NoCall == CallOf("", NilVal, NilBytes, "")

\* The result of a method: the body and the stream after it, and what it
\* returned.
Ret(b, st, val, bytes, err) ==
  [body |-> b, stream |-> st, val |-> val, bytes |-> bytes, err |-> err]

\* func (b *UnifiedBody) Parsed() (any, error)
ParsedCall(b, st) ==
  IF b.parsed # NilVal THEN Ret(b, st, b.parsed, NilBytes, b.parseErr)
  ELSE LET rd == IF b.reader THEN ReadAll(st)
                 ELSE [bytes |-> b.bytes, err |-> "", stream |-> st]
       IN IF rd.err # ""
          THEN Ret(b, rd.stream, NilVal, NilBytes, "read body error")
          ELSE LET pr == Parse(b.parser, rd.bytes)
                   st2 == IF b.reader THEN CloseStream(rd.stream)
                          ELSE rd.stream
                   b2 == [b EXCEPT !.bytes = rd.bytes, !.reader = FALSE,
                                   !.parsed = pr.val, !.parseErr = pr.err]
               IN Ret(b2, st2, pr.val, NilBytes, pr.err)

\* func (b *UnifiedBody) Bytes() ([]byte, error)
BytesCall(b, st) ==
  IF ~b.isDirty /\ b.bytes # NilBytes THEN Ret(b, st, NilVal, b.bytes, "")
  ELSE IF b.isDirty
  THEN IF b.parsed = NilVal
       THEN Ret(b, st, NilVal, NilBytes, "parsed body must not be nil")
       ELSE LET sr == Serialize(b.parser, b.parsed)
            IN IF sr.err # ""
               THEN Ret(b, st, NilVal, NilBytes, "serialize body error")
               ELSE Ret([b EXCEPT !.bytes = sr.bytes, !.isDirty = FALSE], st,
                        NilVal, sr.bytes, "")
  ELSE IF ~b.reader
  THEN Ret(b, st, NilVal, NilBytes, "reader must not be nil")
  ELSE LET rd == ReadAll(st)
       IN IF rd.err # ""
          THEN Ret(b, rd.stream, NilVal, NilBytes, "read body error")
          ELSE Ret([b EXCEPT !.bytes = rd.bytes, !.reader = FALSE],
                   CloseStream(rd.stream), NilVal, rd.bytes, "")

\* if b.reader != nil { b.reader.Close(); b.reader = nil }
DropReader(b, st) ==
  IF b.reader
  THEN [body |-> [b EXCEPT !.reader = FALSE], stream |-> CloseStream(st)]
  ELSE [body |-> b, stream |-> st]

NewBodyFromReader ==
  /\ bodyPc = "none"
  /\ \E data \in WireBytes, fails \in BOOLEAN, p \in Parsers :
       /\ stream' = StreamOf(data, fails)
       /\ body' = BodyOf(TRUE, NilBytes, p)
  /\ bodyPc' = "live"
  /\ UNCHANGED <<lastCall, pendingParsed, parseCalls>>
  /\ UNCHANGED notBody

NewBodyFromBytes ==
  /\ bodyPc = "none"
  /\ \E data \in WireBytes \cup {NilBytes}, p \in Parsers :
       body' = BodyOf(FALSE, data, p)
  /\ bodyPc' = "live"
  /\ UNCHANGED <<stream, lastCall, pendingParsed, parseCalls>>
  /\ UNCHANGED notBody

\* Whether this Parsed() call reaches b.parser.Parse: nothing is cached in
\* b.parsed and the reader, if any, could be read.
ParseInvoked(b, st) ==
  b.parsed = NilVal /\ ~(b.reader /\ ReadAll(st).err # "")

Parsed ==
  /\ bodyPc = "live"
  /\ ParseInvoked(body, stream) => parseCalls < MaxParseCalls
  /\ LET r == ParsedCall(body, stream)
     IN /\ body' = r.body
        /\ stream' = r.stream
        /\ lastCall' = CallOf("Parsed", r.val, NilBytes, r.err)
  /\ parseCalls' = IF ParseInvoked(body, stream) THEN parseCalls + 1 ELSE parseCalls
  /\ UNCHANGED <<bodyPc, pendingParsed>>
  /\ UNCHANGED notBody

Bytes ==
  /\ bodyPc = "live"
  /\ LET r == BytesCall(body, stream)
     IN /\ body' = r.body
        /\ stream' = r.stream
        /\ lastCall' = CallOf("Bytes", NilVal, r.bytes, r.err)
  /\ UNCHANGED <<bodyPc, pendingParsed, parseCalls>>
  /\ UNCHANGED notBody

SetBytes ==
  /\ bodyPc = "live"
  /\ \E data \in WireBytes \cup {NilBytes} :
       LET d == DropReader(body, stream)
       IN /\ body' = [d.body EXCEPT !.bytes = data, !.parsed = NilVal,
                                    !.parseErr = "", !.isDirty = FALSE]
          /\ stream' = d.stream
  /\ lastCall' = CallOf("SetBytes", NilVal, NilBytes, "")
  /\ pendingParsed' = NilVal
  /\ parseCalls' = 0
  /\ UNCHANGED <<bodyPc>>
  /\ UNCHANGED notBody

\* Reader hands out the original reader when there is one, else a reader
\* over Bytes().
Reader ==
  /\ bodyPc = "live"
  /\ IF body.reader
     THEN /\ lastCall' = CallOf("Reader", NilVal, NilBytes, "")
          /\ UNCHANGED <<body, stream>>
     ELSE LET r == BytesCall(body, stream)
          IN /\ body' = r.body
             /\ stream' = r.stream
             /\ lastCall' = CallOf("Reader", NilVal, r.bytes,
                                   IF r.err # "" THEN "get bytes error" ELSE "")
  /\ UNCHANGED <<bodyPc, pendingParsed, parseCalls>>
  /\ UNCHANGED notBody

\* What a stage has to send for this body: the inbound content while it is
\* still unread in the reader, else what Bytes() gives.
BodyContent(b, st) == IF b.reader THEN st.data ELSE BytesCall(b, st).bytes

\* One attempt of the HTTP client stage on a request with this body:
\* bodyReader, err := req.Body.Reader(); defer bodyReader.Close(); the HTTP
\* client reads bodyReader to the end while sending. lastCall records the
\* bytes that were sent.
EndpointSendBody ==
  /\ bodyPc = "live"
  /\ IF body.reader
     THEN /\ stream.reads < MaxReads /\ stream.closes < MaxCloses
          /\ LET rd == ReadAll(stream)
             IN /\ stream' = CloseStream(rd.stream)
                /\ lastCall' = CallOf("Send", NilVal, rd.bytes, rd.err)
          /\ body' = body
     ELSE LET r == BytesCall(body, stream)
          IN /\ body' = r.body
             /\ stream' = r.stream
             /\ lastCall' = CallOf("Send", NilVal, r.bytes,
                                   IF r.err # "" THEN "get request body reader error"
                                   ELSE "")
  /\ UNCHANGED <<bodyPc, pendingParsed, parseCalls>>
  /\ UNCHANGED notBody

SetParser ==
  /\ bodyPc = "live"
  /\ \E p \in Parsers :
       body' = [body EXCEPT !.parser = p, !.parsed = NilVal,
                            !.parseErr = "", !.isDirty = FALSE]
  /\ lastCall' = CallOf("SetParser", NilVal, NilBytes, "")
  /\ pendingParsed' = NilVal
  /\ parseCalls' = 0
  /\ UNCHANGED <<bodyPc, stream>>
  /\ UNCHANGED notBody

SetParsed ==
  /\ bodyPc = "live"
  /\ \E v \in Vals \cup {NilVal} :
       LET d == DropReader(body, stream)
       IN /\ body' = [d.body EXCEPT !.parsed = v, !.isDirty = TRUE]
          /\ stream' = d.stream
          /\ pendingParsed' = v
  /\ lastCall' = CallOf("SetParsed", NilVal, NilBytes, "")
  /\ UNCHANGED <<bodyPc, parseCalls>>
  /\ UNCHANGED notBody

Close ==
  /\ bodyPc = "live"
  /\ body.reader => stream.closes < MaxCloses
  /\ stream' = IF body.reader THEN CloseStream(stream) ELSE stream
  /\ lastCall' = CallOf("Close", NilVal, NilBytes, "")
  /\ UNCHANGED <<bodyPc, body, pendingParsed, parseCalls>>
  /\ UNCHANGED notBody

BodyNext ==
  \/ NewBodyFromReader \/ NewBodyFromBytes
  \/ Parsed \/ Bytes \/ SetBytes \/ Reader \/ SetParser \/ SetParsed \/ Close
  \/ EndpointSendBody

\* C10: in any state reached by Parsed, Bytes, SetBytes and SetParser calls,
\* after SetParsed(v) with v non-nil the next Parsed() returns v with no
\* error and the next Bytes() returns what parser.Serialize(v) returns.
C10_SetParsedRoundTrip ==
  pendingParsed # NilVal =>
    /\ lastCall.op = "Parsed" =>
         (lastCall.val = pendingParsed /\ lastCall.err = "")
    /\ lastCall.op = "Bytes" =>
         LET sr == Serialize(body.parser, pendingParsed)
         IN IF sr.err = ""
            THEN lastCall.bytes = sr.bytes /\ lastCall.err = ""
            ELSE lastCall.err = "serialize body error"

\* C11: between two assignments of the body's bytes or parser, parser.Parse
\* is invoked at most once however often Parsed() is called, whether the
\* parse succeeded or failed.
C11_ParseAtMostOnce == parseCalls <= 1

\* C12: whatever is done with the body (Parsed, Bytes, Reader, SetBytes,
\* SetParsed, SetParser, Close, a stage reading and closing the reader it got
\* from Reader), the inbound stream is read to its end at most once and its
\* Close is called at most once.
C12_StreamReadAndClosedOnce == stream.reads <= 1 /\ stream.closes <= 1

\* C13: every attempt of the HTTP client stage sends the complete body
\* content, read from the first byte of the reader that Reader() returned,
\* also when an earlier attempt has already read a reader of the same body.
C13_ReaderYieldsWholeBody ==
  (lastCall.op = "Send" /\ ~stream.fails) =>
    /\ body.reader => lastCall.err = ""
    /\ lastCall.err = "" => lastCall.bytes = BodyContent(body, stream)

\* C37: for a body in any state, including one whose parsed value was set
\* with SetParsed and not yet serialized, SetParser(p) leaves the byte
\* content unchanged: Bytes() right after the swap returns what Bytes()
\* would have returned right before it.
C37_SetParserKeepsBytes ==
  [][ lastCall'.op = "SetParser" =>
        /\ BytesCall(body', stream').bytes = BytesCall(body, stream).bytes
        /\ BytesCall(body', stream').err = "" <=>
             BytesCall(body, stream).err = "" ]_vars

\* ------------------------------------------------------------------------
\* The moderator's stream mode: the goroutine of TextModeratorEngine.Process
\* ------------------------------------------------------------------------
MaxModChunks == 11

\* if moderateEvery <= 0 { moderateEvery = 10 }
DefaultModerateEvery == 10
ModerateEverys == {-1, 0, 1, 2, 3}
ModerateEvery(cfg) == IF cfg <= 0 THEN DefaultModerateEvery ELSE cfg

\* Upstream chunks are numbered 1, 2, ... in the order of their arrival;
\* the replacement chunk of the adapter is chunk 0.
ReplacementChunk == 0

\* A plausible slip: the call is due one chunk late.
AllowDue_Late(count, every) == count > every

\* if chunkCountSinceLast >= moderateEvery
AllowDue(count, every) == count >= every

AllowCall(at, ok) == [at |-> at, ok |-> ok]

\* TextModeratorEngine.Process with ModerateOutput on a stream response:
\* the goroutine starts ranging over originalChunks.Chan().
ModProcess ==
  /\ mPc = "idle"
  /\ \E cfg \in ModerateEverys, rep \in BOOLEAN :
       /\ mEvery' = cfg
       /\ mHasReplacement' = rep
  /\ mPc' = "recv"
  /\ UNCHANGED <<mRecv, chunkBuffer, chunkCountSinceLast, mFailed, mFlushed,
                 mOut, allowCalls, mSrcClosed, mOutClosed, mCtxDone>>
  /\ UNCHANGED notMod

\* What follows the loop once moderationFailedErr is set, up to the select
\* that sends the replacement: originalChunks.Close(), then
\* GetReplacementBody(ctx, chunkBuffer[0].Body), which panics on an empty
\* chunkBuffer (the deferred close(newChunks) still runs).
AfterFailure(buf) ==
  IF buf = <<>> THEN "panicked"
  ELSE IF mHasReplacement THEN "replace"
  ELSE "closed"

\* One iteration of the range loop for the next upstream chunk, up to the
\* first select of the flush (or to what follows a break).
ModRecvChunk ==
  /\ mPc = "recv"
  /\ mRecv < MaxModChunks
  /\ mRecv' = mRecv + 1
  /\ \E extractOk \in BOOLEAN, allowOk \in BOOLEAN :
       IF ~extractOk
       THEN /\ mFailed' = "ErrModeratorInternalError"
            /\ mSrcClosed' = TRUE
            /\ mPc' = AfterFailure(chunkBuffer)
            /\ mOutClosed' = (AfterFailure(chunkBuffer) # "replace")
            /\ UNCHANGED <<chunkBuffer, chunkCountSinceLast, allowCalls, mFlushed>>
       ELSE IF ~AllowDue(chunkCountSinceLast + 1, ModerateEvery(mEvery))
       THEN /\ chunkBuffer' = Append(chunkBuffer, mRecv + 1)
            /\ chunkCountSinceLast' = chunkCountSinceLast + 1
            /\ UNCHANGED <<mPc, mFailed, allowCalls, mSrcClosed, mOutClosed, mFlushed>>
       ELSE /\ chunkBuffer' = Append(chunkBuffer, mRecv + 1)
            /\ allowCalls' = Append(allowCalls, AllowCall(mRecv + 1, allowOk))
            /\ IF allowOk
               THEN /\ chunkCountSinceLast' = 0
                    /\ mFlushed' = 0
                    /\ mPc' = "flush"
                    /\ UNCHANGED <<mFailed, mSrcClosed, mOutClosed>>
               ELSE /\ chunkCountSinceLast' = chunkCountSinceLast + 1
                    /\ mFailed' = "ErrOutputNotAllowed"
                    /\ mSrcClosed' = TRUE
                    /\ mPc' = AfterFailure(Append(chunkBuffer, mRecv + 1))
                    /\ mOutClosed' =
                         (AfterFailure(Append(chunkBuffer, mRecv + 1)) # "replace")
                    /\ UNCHANGED mFlushed
  /\ UNCHANGED <<mEvery, mHasReplacement, mOut, mCtxDone>>
  /\ UNCHANGED notMod

\* case newChunks <- chunk in the flush loop, received downstream; after the
\* last one chunkBuffer is replaced by an empty one.
ModFlushSend ==
  /\ mPc = "flush"
  /\ mOut' = Append(mOut, chunkBuffer[mFlushed + 1])
  /\ IF mFlushed + 1 = Len(chunkBuffer)
     THEN /\ chunkBuffer' = <<>>
          /\ mFlushed' = 0
          /\ mPc' = "recv"
     ELSE /\ mFlushed' = mFlushed + 1
          /\ UNCHANGED <<chunkBuffer, mPc>>
  /\ UNCHANGED <<mEvery, mHasReplacement, mRecv, chunkCountSinceLast, mFailed,
                 allowCalls, mSrcClosed, mOutClosed, mCtxDone>>
  /\ UNCHANGED notMod

\* case <-ctx.Done(): return, in the flush loop or at the replacement.
ModSendCancelled ==
  /\ mPc \in {"flush", "replace"}
  /\ mCtxDone
  /\ mPc' = "closed"
  /\ mOutClosed' = TRUE
  /\ UNCHANGED <<mEvery, mHasReplacement, mRecv, chunkBuffer,
                 chunkCountSinceLast, mFailed, mFlushed, mOut, allowCalls,
                 mSrcClosed, mCtxDone>>
  /\ UNCHANGED notMod

\* case newChunks <- &octollm.StreamChunk{Body: replacement}, received
\* downstream; the goroutine ends and newChunks is closed.
ModReplaceSend ==
  /\ mPc = "replace"
  /\ mOut' = Append(mOut, ReplacementChunk)
  /\ mPc' = "closed"
  /\ mOutClosed' = TRUE
  /\ UNCHANGED <<mEvery, mHasReplacement, mRecv, chunkBuffer,
                 chunkCountSinceLast, mFailed, mFlushed, allowCalls,
                 mSrcClosed, mCtxDone>>
  /\ UNCHANGED notMod

\* The range loop ends because upstream closed its channel: the goroutine
\* ends and newChunks is closed.
ModUpstreamEnd ==
  /\ mPc = "recv"
  /\ mPc' = "closed"
  /\ mOutClosed' = TRUE
  /\ UNCHANGED <<mEvery, mHasReplacement, mRecv, chunkBuffer,
                 chunkCountSinceLast, mFailed, mFlushed, mOut, allowCalls,
                 mSrcClosed, mCtxDone>>
  /\ UNCHANGED notMod

\* The context of the request is cancelled, or the consumer calls Close.
ModCtxCancel ==
  /\ mPc \notin {"idle", "closed", "panicked"}
  /\ ~mCtxDone
  /\ mCtxDone' = TRUE
  /\ UNCHANGED <<mEvery, mHasReplacement, mPc, mRecv, chunkBuffer,
                 chunkCountSinceLast, mFailed, mFlushed, mOut, allowCalls,
                 mSrcClosed, mOutClosed>>
  /\ UNCHANGED notMod

ModNext ==
  \/ ModProcess
  \/ ModRecvChunk
  \/ ModFlushSend
  \/ ModSendCancelled
  \/ ModReplaceSend
  \/ ModUpstreamEnd
  \/ ModCtxCancel

\* The original chunks delivered downstream.
Originals(o) == SelectSeq(o, LAMBDA c : c # ReplacementChunk)

\* C24: a moderation call is made after every N received chunks (N the
\* configured ModerateStreamEvery, 10 if that is not positive); no upstream
\* chunk is delivered before an Allow call made after its arrival accepted;
\* after the first rejection no original chunk is delivered, the upstream
\* stream is closed, at most one replacement chunk is emitted, as the last
\* chunk, and the output channel is then closed.
C24_ModeratedStream ==
  LET n == ModerateEvery(mEvery)
      rejected == mFailed = "ErrOutputNotAllowed"
  IN /\ \A i \in 1..Len(allowCalls) :
          /\ allowCalls[i].at = i * n
          /\ i < Len(allowCalls) => allowCalls[i].ok
     /\ mFailed = "" => Len(allowCalls) = mRecv \div n
     /\ \A i \in 1..Len(mOut) :
          mOut[i] # ReplacementChunk =>
            \E j \in 1..Len(allowCalls) :
              allowCalls[j].ok /\ allowCalls[j].at >= mOut[i]
     /\ rejected =>
          /\ ~allowCalls[Len(allowCalls)].ok
          /\ Originals(mOut) = [i \in 1..((Len(allowCalls) - 1) * n) |-> i]
          /\ mSrcClosed
          /\ Len(mOut) - Len(Originals(mOut)) <= 1
          /\ mPc \in {"replace", "closed"}
          /\ mPc = "closed" => mOutClosed
          /\ (mPc = "replace") => (mHasReplacement /\ Originals(mOut) = mOut)
          /\ \A i \in 1..Len(mOut) : mOut[i] = ReplacementChunk => i = Len(mOut)

\* C24 witness: with N = 2 the first call accepted chunks 1 and 2, the
\* second call rejected, the replacement was emitted and the channel closed.
C24_Witness ==
  /\ mEvery = 2 /\ mFailed = "ErrOutputNotAllowed"
  /\ allowCalls = <<AllowCall(2, TRUE), AllowCall(4, FALSE)>>
  /\ mOut = <<1, 2, ReplacementChunk>>
  /\ mOutClosed /\ mSrcClosed

\* C31: with a moderator service that accepts every call, once the upstream
\* stream has ended every upstream chunk has been delivered downstream in
\* order, including a final group of fewer than ModerateStreamEvery chunks.
C31_AllChunksDelivered ==
  ( /\ mPc = "closed" /\ mFailed = "" /\ ~mCtxDone
    /\ \A i \in 1..Len(allowCalls) : allowCalls[i].ok ) =>
    mOut = [i \in 1..mRecv |-> i]

\* C32: the goroutine never reads chunkBuffer[0] while chunkBuffer is empty:
\* whenever moderation is marked failed, by a rejection or by an extraction
\* error on any chunk, the replacement step has a buffered chunk to adapt.
C32_ReplacementHasChunk == mPc # "panicked"

\* The sum of the currentWeight values of a balancer.
SumCurrentWeight(bs) == SumSeq([i \in 1..Len(bs) |-> bs[i].currentWeight])

\* C38: every GetNextEngine call, whichever of the concurrent callers makes
\* it, leaves the sum of all backends' currentWeight as it was, which is
\* its value at construction, and selects a backend (a constructed balancer
\* has a backend of positive weight), so that Process never calls Process
\* on a nil engine.
C38_SumKeptAndEngineNonNil ==
  [][ calls' = calls + 1 =>
        /\ SumCurrentWeight(backends') = SumCurrentWeight(backends)
        /\ \E i \in 1..Len(backends) : selCount'[i] = selCount[i] + 1
        /\ \A r \in DOMAIN lbReq' : lbReq'[r].pc = "call" => lbReq'[r].eng # 0
    ]_vars

\* C38 witness: both requests interleave their GetNextEngine calls, three
\* calls in all, and the second backend was drawn with currentWeight 1.
C38_Witness ==
  /\ lbReq # <<>> /\ calls = 3
  /\ lbReq["r1"].attempts = 1 /\ lbReq["r1"].pc = "call"
  /\ lbReq["r2"].pc = "call" /\ lbReq["r2"].attempts = 0
  /\ lbReq["r1"].eng # 0 /\ lbReq["r2"].eng # 0
  /\ SumCurrentWeight(backends) = 1

\* ------------------------------------------------------------------------
\* Concurrent Process calls on one ExprMatcher, one HTTPEndpoint and one
\* WeightedRoundRobin
\* ------------------------------------------------------------------------
MaxGoroutines == 2
Callers == 1..MaxGoroutines
RaceBackends == 2

\* The field a goroutine's next step reads or writes.
NoAccess == [loc |-> "none", write |-> FALSE]
FieldAccess(loc, write) == [loc |-> loc, write |-> write]

\* NewHTTPEndpoint with or without WithClient, an ExprMatcher literal with a
\* Code that compiles or does not, and NewWeightedRoundRobin.
StagesNew ==
  /\ rStages = "none"
  /\ rStages' = "built"
  /\ prog' = "nil"
  /\ codeOk' \in BOOLEAN
  /\ eClient' \in {"nil", "given"}
  /\ \E r \in NewWeightedRoundRobin([i \in 1..RaceBackends |-> 1]) :
       rrBackends' = r.backends
  /\ UNCHANGED <<mu, gPc>>
  /\ UNCHANGED notRace

\* A goroutine serving a request enters ExprMatcher.Match,
\* HTTPEndpoint.Process or WeightedRoundRobin.GetNextEngine.
StageCall(g) ==
  /\ rStages = "built"
  /\ gPc[g] = "idle"
  /\ \E pc \in {"match_check", "http_check", "wrr_lock"} :
       gPc' = [gPc EXCEPT ![g] = pc]
  /\ UNCHANGED <<rStages, prog, codeOk, eClient, rrBackends, mu>>
  /\ UNCHANGED notRace

\* if m.prog == nil
MatchCheck(g) ==
  /\ gPc[g] = "match_check"
  /\ gPc' = [gPc EXCEPT ![g] = IF prog = "nil" THEN "match_compile"
                                 ELSE "match_run"]
  /\ UNCHANGED <<rStages, prog, codeOk, eClient, rrBackends, mu>>
  /\ UNCHANGED notRace

\* m.prog, err = expr.Compile(m.Code); on an error Match returns false.
MatchCompile(g) ==
  /\ gPc[g] = "match_compile"
  /\ prog' = IF codeOk THEN "compiled" ELSE "nil"
  /\ gPc' = [gPc EXCEPT ![g] = IF codeOk THEN "match_run" ELSE "idle"]
  /\ UNCHANGED <<rStages, codeOk, eClient, rrBackends, mu>>
  /\ UNCHANGED notRace

\* expr.Run(m.prog, env)
MatchRun(g) ==
  /\ gPc[g] = "match_run"
  /\ gPc' = [gPc EXCEPT ![g] = "idle"]
  /\ UNCHANGED <<rStages, prog, codeOk, eClient, rrBackends, mu>>
  /\ UNCHANGED notRace

\* if e.client == nil
HttpCheck(g) ==
  /\ gPc[g] = "http_check"
  /\ gPc' = [gPc EXCEPT ![g] = IF eClient = "nil" THEN "http_default"
                                 ELSE "http_do"]
  /\ UNCHANGED <<rStages, prog, codeOk, eClient, rrBackends, mu>>
  /\ UNCHANGED notRace

\* e.client = http.DefaultClient
HttpDefault(g) ==
  /\ gPc[g] = "http_default"
  /\ eClient' = "DefaultClient"
  /\ gPc' = [gPc EXCEPT ![g] = "http_do"]
  /\ UNCHANGED <<rStages, prog, codeOk, rrBackends, mu>>
  /\ UNCHANGED notRace

\* e.client.Do(httpReq)
HttpDo(g) ==
  /\ gPc[g] = "http_do"
  /\ gPc' = [gPc EXCEPT ![g] = "idle"]
  /\ UNCHANGED <<rStages, prog, codeOk, eClient, rrBackends, mu>>
  /\ UNCHANGED notRace

\* l.mu.Lock()
WrrLock(g) ==
  /\ gPc[g] = "wrr_lock"
  /\ mu = 0
  /\ mu' = g
  /\ gPc' = [gPc EXCEPT ![g] = "wrr_select"]
  /\ UNCHANGED <<rStages, prog, codeOk, eClient, rrBackends>>
  /\ UNCHANGED notRace

\* The body of GetNextEngine: every currentWeight is read and written.
WrrSelect(g) ==
  /\ gPc[g] = "wrr_select"
  /\ rrBackends' = GetNextEngine(rrBackends).backends
  /\ gPc' = [gPc EXCEPT ![g] = "wrr_unlock"]
  /\ UNCHANGED <<rStages, prog, codeOk, eClient, mu>>
  /\ UNCHANGED notRace

\* defer l.mu.Unlock()
WrrUnlock(g) ==
  /\ gPc[g] = "wrr_unlock"
  /\ mu' = 0
  /\ gPc' = [gPc EXCEPT ![g] = "idle"]
  /\ UNCHANGED <<rStages, prog, codeOk, eClient, rrBackends>>
  /\ UNCHANGED notRace

RaceNext ==
  \/ StagesNew
  \/ \E g \in Callers : StageCall(g)
  \/ \E g \in Callers : MatchCheck(g)
  \/ \E g \in Callers : MatchCompile(g)
  \/ \E g \in Callers : MatchRun(g)
  \/ \E g \in Callers : HttpCheck(g)
  \/ \E g \in Callers : HttpDefault(g)
  \/ \E g \in Callers : HttpDo(g)
  \/ \E g \in Callers : WrrLock(g)
  \/ \E g \in Callers : WrrSelect(g)
  \/ \E g \in Callers : WrrUnlock(g)

\* The access of the step a goroutine is about to take.
Access(g) ==
  CASE gPc[g] = "match_check" -> FieldAccess("ExprMatcher.prog", FALSE)
    [] gPc[g] = "match_compile" -> FieldAccess("ExprMatcher.prog", TRUE)
    [] gPc[g] = "match_run" -> FieldAccess("ExprMatcher.prog", FALSE)
    [] gPc[g] = "http_check" -> FieldAccess("HTTPEndpoint.client", FALSE)
    [] gPc[g] = "http_default" -> FieldAccess("HTTPEndpoint.client", TRUE)
    [] gPc[g] = "http_do" -> FieldAccess("HTTPEndpoint.client", FALSE)
    [] gPc[g] = "wrr_select" -> FieldAccess("currentWeight", TRUE)
    [] OTHER -> NoAccess

\* Two goroutines are about to access the same field, one of them writing,
\* and nothing orders the two accesses.
Conflict(g, h) ==
  /\ g # h
  /\ Access(g).loc # "none"
  /\ Access(g).loc = Access(h).loc
  /\ Access(g).write \/ Access(h).write

\* C26: concurrent Process calls never access the lazily compiled program of
\* an ExprMatcher, the lazily defaulted client of an HTTPEndpoint or the
\* currentWeight values of a WeightedRoundRobin without mutual exclusion.
C26_NoUnsynchronisedAccess ==
  \A g, h \in Callers : ~Conflict(g, h)

\* The part of C26 that the mutex of WeightedRoundRobin does give.
WrrAccessUnderMutex ==
  \A g \in Callers : Access(g).loc = "currentWeight" => mu = g

\* ------------------------------------------------------------------------
\* ProxyClientManager.GetClient under concurrent calls
\* ------------------------------------------------------------------------
MaxGetClient == 4          \* GetClient calls followed
MaxPcmCallers == 2         \* goroutines calling GetClient
PcmCallers == 1..MaxPcmCallers

\* The proxyURL arguments: the empty string, two URLs that url.Parse
\* accepts and two strings it rejects.
ProxyURLs == {"", "http://127.0.0.1:8080", "http://127.0.0.1:8081",
              "://a", "://b"}

\* url.Parse(proxyURL) returns no error.
URLParses(u) == u \in {"", "http://127.0.0.1:8080", "http://127.0.0.1:8081"}

\* pcm.defaultClient, made by the constructor, is client 0; newClient
\* numbers the later clients 1, 2, ...
DefaultClient == 0

GetClientResult(u, c) == [url |-> u, client |-> c]

\* A plausible slip: sync.Mutex that never blocks.
MutexFree_Always(m) == TRUE

\* pcm.mu can be taken.
MutexFree(m) == m = 0

\* NewProxyClientManager
NewProxyClientManager ==
  /\ pcmPc = <<>>
  /\ pcmPc' = [g \in PcmCallers |-> "idle"]
  /\ pcmArg' = [g \in PcmCallers |-> ""]
  /\ cliMap' = <<>>
  /\ cliMapKeys' = {}
  /\ pcmClients' = 1
  /\ UNCHANGED <<pcmMu, pcmGot, pcmCalls>>
  /\ UNCHANGED notPcm

\* GetClient(proxyURL) up to pcm.mu.Lock(): the empty and the unparsable
\* proxyURL return pcm.defaultClient at once.
GetClientCall(g) ==
  /\ pcmPc # <<>>
  /\ pcmPc[g] = "idle"
  /\ pcmCalls < MaxGetClient
  /\ pcmCalls' = pcmCalls + 1
  /\ \E u \in ProxyURLs :
       /\ pcmArg' = [pcmArg EXCEPT ![g] = u]
       /\ IF u = "" \/ ~URLParses(u)
          THEN /\ pcmGot' = pcmGot \cup {GetClientResult(u, DefaultClient)}
               /\ UNCHANGED pcmPc
          ELSE /\ pcmPc' = [pcmPc EXCEPT ![g] = "lock"]
               /\ UNCHANGED pcmGot
  /\ UNCHANGED <<cliMap, cliMapKeys, pcmClients, pcmMu>>
  /\ UNCHANGED notPcm

\* pcm.mu.Lock()
GetClientLock(g) ==
  /\ pcmPc # <<>>
  /\ pcmPc[g] = "lock"
  /\ MutexFree(pcmMu)
  /\ pcmMu' = g
  /\ pcmPc' = [pcmPc EXCEPT ![g] = "lookup"]
  /\ UNCHANGED <<pcmArg, cliMap, cliMapKeys, pcmClients, pcmGot, pcmCalls>>
  /\ UNCHANGED notPcm

\* if cli, ok := pcm.cliMap[proxyURL]; ok { return cli }
GetClientLookup(g) ==
  /\ pcmPc # <<>>
  /\ pcmPc[g] = "lookup"
  /\ IF pcmArg[g] \in cliMapKeys
     THEN /\ pcmGot' = pcmGot \cup
                         {GetClientResult(pcmArg[g], cliMap[pcmArg[g]])}
          /\ pcmPc' = [pcmPc EXCEPT ![g] = "unlock"]
     ELSE /\ pcmPc' = [pcmPc EXCEPT ![g] = "create"]
          /\ UNCHANGED pcmGot
  /\ UNCHANGED <<pcmArg, cliMap, cliMapKeys, pcmClients, pcmMu, pcmCalls>>
  /\ UNCHANGED notPcm

\* cli := pcm.newClient(url); pcm.cliMap[proxyURL] = cli; return cli
GetClientCreate(g) ==
  /\ pcmPc # <<>>
  /\ pcmPc[g] = "create"
  /\ cliMap' = [k \in cliMapKeys \cup {pcmArg[g]} |->
                  IF k = pcmArg[g] THEN pcmClients ELSE cliMap[k]]
  /\ cliMapKeys' = cliMapKeys \cup {pcmArg[g]}
  /\ pcmClients' = pcmClients + 1
  /\ pcmGot' = pcmGot \cup {GetClientResult(pcmArg[g], pcmClients)}
  /\ pcmPc' = [pcmPc EXCEPT ![g] = "unlock"]
  /\ UNCHANGED <<pcmArg, pcmMu, pcmCalls>>
  /\ UNCHANGED notPcm

\* defer pcm.mu.Unlock()
GetClientUnlock(g) ==
  /\ pcmPc # <<>>
  /\ pcmPc[g] = "unlock"
  /\ pcmMu' = 0
  /\ pcmPc' = [pcmPc EXCEPT ![g] = "idle"]
  /\ UNCHANGED <<pcmArg, cliMap, cliMapKeys, pcmClients, pcmGot, pcmCalls>>
  /\ UNCHANGED notPcm

PcmNext ==
  \/ NewProxyClientManager
  \/ \E g \in PcmCallers : GetClientCall(g)
  \/ \E g \in PcmCallers : GetClientLock(g)
  \/ \E g \in PcmCallers : GetClientLookup(g)
  \/ \E g \in PcmCallers : GetClientCreate(g)
  \/ \E g \in PcmCallers : GetClientUnlock(g)

\* C27 as stated: the same client for the same proxy URL, a different
\* client for a different proxy URL, the default client for the empty URL.
C27_Original ==
  \A r, q \in pcmGot :
    /\ r.url = q.url => r.client = q.client
    /\ r.url # q.url => r.client # q.client
    /\ r.url = "" => r.client = DefaultClient

\* C27: GetClient returns the same client for every call with the same
\* proxy URL, also under concurrent calls; the single default client for
\* the empty URL and for every string url.Parse rejects; and for two
\* different non-empty URLs that parse, two different clients, neither of
\* them the default client.
C27_ClientPerProxyURL ==
  \A r, q \in pcmGot :
    /\ r.url = q.url => r.client = q.client
    /\ (r.url = "" \/ ~URLParses(r.url)) <=> r.client = DefaultClient
    /\ (r.url # q.url /\ r.url # "" /\ URLParses(r.url)) =>
         r.client # q.client

\* C27 witness: two goroutines asked for the same proxy URL at the same
\* time, a third call asked for another one and one for the empty URL.
C27_Witness ==
  /\ pcmPc # <<>>
  /\ pcmArg[1] = "http://127.0.0.1:8080" /\ pcmArg[2] = pcmArg[1]
  /\ pcmPc[1] = "unlock" /\ pcmPc[2] = "lock"
  /\ \E r \in pcmGot : r.url = "http://127.0.0.1:8081"
  /\ \E r \in pcmGot : r.url = ""

\* ------------------------------------------------------------------------
\* ChatCompletionsToClaudeMessages.convertNonStreamResponseBody
\* ------------------------------------------------------------------------
MaxToolCalls == 3          \* tool calls of one chat message

\* msg.Content with msg.JSON.Content: the field null or left out, the empty
\* string, a text.
NoContent == [valid |-> FALSE, text |-> ""]
Contents == {NoContent, [valid |-> TRUE, text |-> ""],
             [valid |-> TRUE, text |-> "Hello"]}

\* toolCall.Function.Arguments: an object, the same object with white
\* space, a truncated object, the empty string.
ArgumentStrings == {"{\"a\":1}", "{ \"a\": 1 }", "{\"a\":", ""}

\* gjson.Valid(toolCall.Function.Arguments)
GjsonValid(a) == a \in {"{\"a\":1}", "{ \"a\": 1 }"}

\* json.Marshal of a json.RawMessage writes the document compacted.
MarshalRaw(a) == IF a = "{ \"a\": 1 }" THEN "{\"a\":1}" ELSE a

ChatToolCall(id, args) ==
  [id |-> id, name |-> "get_current_weather", arguments |-> args]
ChatToolCalls ==
  {ChatToolCall(id, a) : id \in {"call_a", "call_b"}, a \in ArgumentStrings}
ToolCallLists ==
  UNION { [1..n -> ChatToolCalls] : n \in 0..MaxToolCalls }

ChatFinishReasons == {"stop", "length", "tool_calls", "content_filter", ""}
ChatUsages ==
  {[prompt_tokens |-> p, completion_tokens |-> c] : p \in {0, 82}, c \in {17}}

\* An openai ChatCompletion: Choices[0] when hasChoice.
ChatCompletions ==
  {[id |-> "chatcmpl-abc123", model |-> "gpt-4o-mini", hasChoice |-> h,
    finish_reason |-> fr, content |-> c, tool_calls |-> tcs, usage |-> u] :
     h \in BOOLEAN, fr \in ChatFinishReasons, c \in Contents,
     tcs \in ToolCallLists, u \in ChatUsages}

ContentBlockText(text) ==
  [type |-> "text", text |-> text, id |-> "", name |-> "", input |-> ""]
ContentBlockToolUse(tc) ==
  [type |-> "tool_use", text |-> "", id |-> tc.id, name |-> tc.name,
   input |-> MarshalRaw(tc.arguments)]

\* A plausible slip: a tool call with invalid arguments is kept.
RECURSIVE ToolUseBlocks_KeepAll(_, _)
ToolUseBlocks_KeepAll(tcs, i) ==
  IF i > Len(tcs) THEN <<>>
  ELSE <<ContentBlockToolUse(tcs[i])>> \o ToolUseBlocks_KeepAll(tcs, i + 1)

\* for _, toolCall := range msg.ToolCalls: the blocks appended for the tool
\* calls from position i on.
RECURSIVE ToolUseBlocks(_, _)
ToolUseBlocks(tcs, i) ==
  IF i > Len(tcs) THEN <<>>
  ELSE IF ~GjsonValid(tcs[i].arguments) THEN ToolUseBlocks(tcs, i + 1)
  ELSE <<ContentBlockToolUse(tcs[i])>> \o ToolUseBlocks(tcs, i + 1)

\* StopReason stays nil (left out of the document) without a choice.
NoStopReason == [set |-> FALSE, value |-> ""]
StopReasonOf(v) == [set |-> TRUE, value |-> v]

convertNonStreamResponseBody(resp) ==
  [id |-> resp.id, type |-> "message", role |-> "assistant",
   model |-> resp.model,
   usage |-> [input_tokens |-> resp.usage.prompt_tokens,
              output_tokens |-> resp.usage.completion_tokens],
   stop_reason |-> IF resp.hasChoice
                   THEN StopReasonOf(mapFinishReason(resp.finish_reason))
                   ELSE NoStopReason,
   content |-> IF ~resp.hasChoice THEN <<>>
               ELSE (IF resp.content.valid
                     THEN <<ContentBlockText(resp.content.text)>>
                     ELSE <<>>)
                    \o ToolUseBlocks(resp.tool_calls, 1)]

NoMessage == [id |-> "", type |-> "", role |-> "", model |-> "",
              usage |-> [input_tokens |-> 0, output_tokens |-> 0],
              stop_reason |-> NoStopReason, content |-> <<>>]

\* The non-stream branch of Process: the upstream answer is converted.
ConvertNonStream ==
  /\ nsResp = <<>>
  /\ \E resp \in ChatCompletions :
       /\ nsResp' = <<resp>>
       /\ nsMsg' = convertNonStreamResponseBody(resp)
  /\ UNCHANGED notNs

\* The next request of the same converter.
ConvertNonStreamDone ==
  /\ nsResp # <<>>
  /\ nsResp' = <<>>
  /\ nsMsg' = NoMessage
  /\ UNCHANGED notNs

NsNext == ConvertNonStream \/ ConvertNonStreamDone

\* The positions of the tool calls with valid arguments, in upstream order.
RECURSIVE ValidCalls(_, _)
ValidCalls(tcs, i) ==
  IF i > Len(tcs) THEN <<>>
  ELSE (IF GjsonValid(tcs[i].arguments) THEN <<i>> ELSE <<>>)
       \o ValidCalls(tcs, i + 1)

\* C28: the content list of the messages document is one text block first
\* if and only if the chat message has content, then one tool_use block per
\* tool call with valid JSON arguments in the upstream order; stop_reason
\* maps stop, length and tool_calls and passes any other value through;
\* usage copies prompt_tokens and completion_tokens.
C28_NonStreamDocument ==
  (nsResp # <<>> /\ nsResp[1].hasChoice) =>
    LET resp == nsResp[1]
        t == IF resp.content.valid THEN 1 ELSE 0
        keep == ValidCalls(resp.tool_calls, 1)
    IN /\ Len(nsMsg.content) = t + Len(keep)
       /\ \A i \in 1..Len(nsMsg.content) :
            nsMsg.content[i].type = "text" <=> (i = 1 /\ resp.content.valid)
       /\ resp.content.valid => nsMsg.content[1].text = resp.content.text
       /\ \A k \in 1..Len(keep) :
            /\ nsMsg.content[t + k].type = "tool_use"
            /\ nsMsg.content[t + k].id = resp.tool_calls[keep[k]].id
            /\ nsMsg.content[t + k].name = resp.tool_calls[keep[k]].name
       /\ nsMsg.stop_reason.set
       /\ nsMsg.stop_reason.value =
            (CASE resp.finish_reason = "stop" -> "end_turn"
               [] resp.finish_reason = "length" -> "max_tokens"
               [] resp.finish_reason = "tool_calls" -> "tool_use"
               [] OTHER -> resp.finish_reason)
       /\ nsMsg.usage.input_tokens = resp.usage.prompt_tokens
       /\ nsMsg.usage.output_tokens = resp.usage.completion_tokens

\* C28 witness: a message with content and three tool calls, the second
\* with truncated arguments, finished for tool_calls.
C28_Witness ==
  /\ nsResp # <<>> /\ nsResp[1].hasChoice
  /\ nsResp[1].content.valid /\ nsResp[1].content.text # ""
  /\ Len(nsResp[1].tool_calls) = 3
  /\ nsResp[1].tool_calls[1].id = "call_b"
  /\ nsResp[1].tool_calls[3].id = "call_a"
  /\ ~GjsonValid(nsResp[1].tool_calls[2].arguments)
  /\ GjsonValid(nsResp[1].tool_calls[1].arguments)
  /\ GjsonValid(nsResp[1].tool_calls[3].arguments)
  /\ nsResp[1].finish_reason = "tool_calls"
  /\ nsResp[1].usage.prompt_tokens # nsResp[1].usage.completion_tokens
  /\ Len(nsMsg.content) = 3

\* ------------------------------------------------------------------------
\* The request across the retries of WeightedRoundRobin.Process
\* ------------------------------------------------------------------------
RetryBackends == 2         \* backends of the balancer

\* The stage in front of a backend's endpoint: none, a RewriteEngine with a
\* RequestRewrite, an AddHeaderEngine, a ChatCompletionsToClaudeMessages.
StageKinds == {"endpoint", "rewrite", "addheader", "convert"}

\* The request as the balancer receives it: a messages document nobody has
\* rewritten, the client's Authorization header, the messages format tag.
ClientRequest ==
  [body |-> [doc |-> "messages", rewrittenBy |-> <<>>],
   header |-> [Authorization |-> "client"],
   format |-> "claude_messages"]

BackendKey(i) == IF i = 1 THEN "backend-1" ELSE "backend-2"

\* What the stage of backend i does to *req before it calls its Next:
\* req.Body.SetBytes(RewriteJSON(b)); req.Header.Set(k, v);
\* req.Format = chat, req.Body = newBody. convertRequestBody fails on a body
\* that does not parse as *anthropic.MessageNewParams and changes nothing.
StageRequest(kind, i, req) ==
  CASE kind = "rewrite" ->
         [req EXCEPT !.body.rewrittenBy = Append(@, i)]
    [] kind = "addheader" ->
         [req EXCEPT !.header.Authorization = BackendKey(i)]
    [] kind = "convert" /\ req.body.doc = "messages" ->
         [req EXCEPT !.format = "chat_completions", !.body.doc = "chat"]
    [] OTHER -> req

StageFails(kind, req) == kind = "convert" /\ req.body.doc # "messages"

\* NewWeightedRoundRobin over backends with their stages, and a request.
RetryNew ==
  /\ rtPc = "none"
  /\ rtPc' = "loop"
  /\ rtKinds' \in [1..RetryBackends -> StageKinds]
  /\ rtFails' \in [1..RetryBackends -> BOOLEAN]
  /\ rtMax' \in 0..MaxRetry
  /\ \E r \in NewWeightedRoundRobin([i \in 1..RetryBackends |-> 1]) :
       rtBackends' = r.backends
  /\ rtReq' = ClientRequest
  /\ UNCHANGED <<rtHanded, rtRetry, rtResult>>
  /\ UNCHANGED notRetry

\* One round of the loop of Process: GetNextEngine, eng.Process(req) on the
\* one *octollm.Request of the call, and the checks after a failure.
RetryAttempt ==
  /\ rtPc = "loop"
  /\ LET g == GetNextEngine(rtBackends)
         staged == StageRequest(rtKinds[g.sel], g.sel, rtReq)
         failed == StageFails(rtKinds[g.sel], rtReq) \/ rtFails[g.sel]
     IN /\ rtBackends' = g.backends
        /\ rtHanded' = Append(rtHanded, [backend |-> g.sel, req |-> rtReq])
        /\ rtReq' = staged
        /\ IF ~failed
           THEN /\ rtPc' = "done" /\ rtResult' = "ok"
                /\ UNCHANGED rtRetry
           ELSE \E expired \in BOOLEAN :
                  /\ rtRetry' = rtRetry + 1
                  /\ IF expired \/ rtRetry + 1 >= rtMax
                     THEN rtPc' = "done" /\ rtResult' = "err"
                     ELSE rtPc' = "loop" /\ UNCHANGED rtResult
  /\ UNCHANGED <<rtKinds, rtFails, rtMax>>
  /\ UNCHANGED notRetry

RetryNext == RetryNew \/ RetryAttempt

\* C30: when Process retries after a backend failed, the request handed to
\* the next selected backend is the request as it was handed to the first
\* one: body, headers and format tag carry no change made by the failed
\* backend's own stages.
C30_RetryHandsOriginalRequest ==
  \A i \in 1..Len(rtHanded) : rtHanded[i].req = rtHanded[1].req

\* ------------------------------------------------------------------------
\* llmJSONRewriter.RewriteJSON
\* ------------------------------------------------------------------------
MaxRewriteKeys == 2        \* top-level keys a policy and a body speak about
RewriteKeys == 1..MaxRewriteKeys

\* A JSON object over the keys: per key its value, "absent" when the
\* object has no such key.
JSONObjects == [RewriteKeys -> {"absent", "orig"}]

\* What evaluating the code of a set_keys_by_expr entry gives: expr.Compile
\* fails, expr.Run fails, the result is nil, or a value.
ExprOutcomes == {"compile_err", "run_err", "nil", "expr"}

\* A policy: RemoveKeys, SetKeys (key to value, "absent" when the key is
\* not listed) and SetKeysByExpr (key to the outcome of its code).
RewritePolicies ==
  [remove : SUBSET RewriteKeys,
   set : [RewriteKeys -> {"absent", "set"}],
   byExpr : [RewriteKeys -> ExprOutcomes \cup {"absent"}]]

\* sjson.DeleteBytes(reqBody, k)
DeleteBytes(obj, k) == [obj EXCEPT ![k] = "absent"]

\* sjson.SetBytes(reqBody, k, v)
SetBytesKey(obj, k, v) == [obj EXCEPT ![k] = v]

\* for _, k := range r.policy.RemoveKeys
RECURSIVE RemoveAll(_, _)
RemoveAll(obj, ks) ==
  IF ks = {} THEN obj
  ELSE LET k == CHOOSE x \in ks : TRUE
       IN RemoveAll(DeleteBytes(obj, k), ks \ {k})

\* for k, v := range r.policy.SetKeys
RECURSIVE SetAll(_, _, _)
SetAll(obj, set, ks) ==
  IF ks = {} THEN obj
  ELSE LET k == CHOOSE x \in ks : TRUE
       IN SetAll(IF set[k] = "absent" THEN obj
                 ELSE SetBytesKey(obj, k, set[k]), set, ks \ {k})

\* for k, code := range r.policy.SetKeysByExpr: a compile error and a run
\* error skip the key, a nil result does not set it.
RECURSIVE SetAllByExpr(_, _, _)
SetAllByExpr(obj, byExpr, ks) ==
  IF ks = {} THEN obj
  ELSE LET k == CHOOSE x \in ks : TRUE
       IN SetAllByExpr(IF byExpr[k] \in {"absent", "compile_err", "run_err", "nil"}
                       THEN obj
                       ELSE SetBytesKey(obj, k, byExpr[k]), byExpr, ks \ {k})

\* A plausible slip: the keys are set before the keys are removed.
RewriteJSON_SetThenRemove(policy, obj) ==
  SetAllByExpr(RemoveAll(SetAll(obj, policy.set, RewriteKeys), policy.remove),
               policy.byExpr, RewriteKeys)

RewriteJSON(policy, obj) ==
  SetAllByExpr(SetAll(RemoveAll(obj, policy.remove), policy.set, RewriteKeys),
               policy.byExpr, RewriteKeys)

\* A RewriteEngine applies its policy to a body.
RewriteJSONCall ==
  /\ rwPolicy = <<>>
  /\ \E policy \in RewritePolicies, obj \in JSONObjects :
       /\ rwPolicy' = <<policy>>
       /\ rwIn' = obj
       /\ rwOut' = RewriteJSON(policy, obj)
  /\ UNCHANGED notRw

\* The next body.
RewriteJSONDone ==
  /\ rwPolicy # <<>>
  /\ rwPolicy' = <<>>
  /\ rwIn' = [k \in RewriteKeys |-> "absent"]
  /\ rwOut' = [k \in RewriteKeys |-> "absent"]
  /\ UNCHANGED notRw

RwNext == RewriteJSONCall \/ RewriteJSONDone

\* C34: RewriteJSON applies a policy in the order remove, set,
\* set-by-expression: a key listed in remove_keys and in set_keys is present
\* with the set value, and a key listed in set_keys and in set_keys_by_expr
\* ends with the expression's value when that is non-nil and with the set
\* value when the expression fails or evaluates to nil.
C34_RemoveSetExprOrder ==
  rwPolicy # <<>> =>
    \A k \in RewriteKeys :
      LET p == rwPolicy[1]
      IN /\ (k \in p.remove /\ p.set[k] # "absent" /\ p.byExpr[k] = "absent") =>
              rwOut[k] = p.set[k]
         /\ (p.set[k] # "absent" /\ p.byExpr[k] = "expr") => rwOut[k] = "expr"
         /\ (p.set[k] # "absent"
               /\ p.byExpr[k] \in {"compile_err", "run_err", "nil"}) =>
              rwOut[k] = p.set[k]
         /\ (k \in p.remove /\ p.set[k] = "absent"
               /\ p.byExpr[k] # "expr") => rwOut[k] = "absent"
         /\ (k \notin p.remove /\ p.set[k] = "absent"
               /\ p.byExpr[k] # "expr") => rwOut[k] = rwIn[k]

\* C34 witness: the first key is removed and set, the second is set and has
\* an expression that evaluates to nil; both were in the body.
C34_Witness ==
  /\ rwPolicy # <<>>
  /\ rwIn = [k \in RewriteKeys |-> "orig"]
  /\ 1 \in rwPolicy[1].remove /\ rwPolicy[1].set[1] = "set"
  /\ rwPolicy[1].byExpr[1] = "absent"
  /\ rwPolicy[1].set[2] = "set" /\ rwPolicy[1].byExpr[2] = "nil"
  /\ rwOut[1] = "set" /\ rwOut[2] = "set"

\* ------------------------------------------------------------------------
\* The SSE line parser of HTTPEndpoint.Process
\* ------------------------------------------------------------------------
MaxSseLines == 4           \* lines read from the upstream body
MaxSpaces == 2             \* spaces in front of a value

\* A line is the text before its first colon (field), and, if it has a
\* colon, the bytes after it (rest); bytes are " ", "x" and "y", a field
\* name is one unit.  The empty line has no field and no colon, a comment
\* line no field and a colon.
Spaces(n) == [i \in 1..n |-> " "]
Rests == {Spaces(n) \o tail : n \in 0..MaxSpaces, tail \in {<<>>, <<"x">>}}
SseLineOf(field, colon, rest) == [field |-> field, colon |-> colon, rest |-> rest]
SseLines ==
  {SseLineOf("", FALSE, <<>>), SseLineOf("", TRUE, <<"x">>),
   SseLineOf("data", FALSE, <<>>), SseLineOf("retry", TRUE, <<"x">>),
   SseLineOf("event", TRUE, <<" ", "x">>), SseLineOf("event", TRUE, <<"y">>),
   SseLineOf("id", TRUE, <<" ", "x">>)}
  \cup {SseLineOf("data", TRUE, r) : r \in Rests}

\* line := scanner.Bytes()
LineOf(l) ==
  (IF l.field = "" THEN <<>> ELSE <<l.field>>)
  \o (IF l.colon THEN <<":">> \o l.rest ELSE <<>>)

\* colonIdx == 0
IsComment(l) == l.field = "" /\ l.colon

\* line[colonIdx+1:], which is the whole line when colonIdx == -1
AfterColon(l) == IF l.colon THEN l.rest ELSE LineOf(l)

\* strings.TrimLeft(s, " "), and the slice from the first byte that is not
\* a space on.
RECURSIVE TrimLeft(_)
TrimLeft(s) ==
  IF s # <<>> /\ Head(s) = " " THEN TrimLeft(Tail(s)) ELSE s

\* A plausible slip: the buffer of the metadata outlives the event.
MetaAfterDispatch_Kept(mb) == mb

\* if len(metaBuffer) > 0 { ...; metaBuffer = make(map[string]string) }
NoSseMeta == [k \in {} |-> <<>>]
MetaAfterDispatch(mb) == NoSseMeta

SseChunk(b, mb) == [body |-> b, meta |-> mb]

\* metaBuffer[key] = value
MetaSet(mb, k, v) ==
  [x \in DOMAIN mb \cup {k} |-> IF x = k THEN v ELSE mb[x]]

\* HTTPEndpoint.Process got a text/event-stream answer; the goroutine
\* starts with empty buffers.
SseStart ==
  /\ ssePc = "idle"
  /\ ssePc' = "scan"
  /\ UNCHANGED <<sseN, sseBody, sseMeta, sseSince, sseChunk, sseFrom>>
  /\ UNCHANGED notSse

\* One iteration of the scanner loop on the next line of upstream, up to
\* and including the send of the chunk on a blank line.
SseLine ==
  /\ ssePc = "scan"
  /\ sseN < MaxSseLines
  /\ sseN' = sseN + 1
  /\ \E l \in SseLines :
       IF LineOf(l) = <<>>
       THEN /\ sseChunk' = <<SseChunk(sseBody, sseMeta)>>
            /\ sseFrom' = sseSince
            /\ sseBody' = <<>>
            /\ sseMeta' = IF DOMAIN sseMeta # {} THEN MetaAfterDispatch(sseMeta)
                          ELSE sseMeta
            /\ sseSince' = <<>>
       ELSE /\ sseSince' = Append(sseSince, l)
            /\ UNCHANGED <<sseChunk, sseFrom>>
            /\ IF IsComment(l) THEN UNCHANGED <<sseBody, sseMeta>>
               ELSE IF l.field = "data"
               THEN /\ sseBody' = sseBody \o TrimLeft(AfterColon(l))
                    /\ UNCHANGED sseMeta
               ELSE IF l.field \in {"event", "id"}
               THEN /\ sseMeta' = MetaSet(sseMeta, l.field, TrimLeft(AfterColon(l)))
                    /\ UNCHANGED sseBody
               ELSE UNCHANGED <<sseBody, sseMeta>>
  /\ UNCHANGED ssePc
  /\ UNCHANGED notSse

\* scanner.Scan() returns false: the goroutine ends.
SseEnd ==
  /\ ssePc = "scan"
  /\ ssePc' = "exited"
  /\ UNCHANGED <<sseN, sseBody, sseMeta, sseSince, sseChunk, sseFrom>>
  /\ UNCHANGED notSse

SseNext == SseStart \/ SseLine \/ SseEnd

\* The value of a `data:` line as the event-stream format defines it: the
\* text after the colon, without one leading space if it has one.
StripOneSpace(r) == IF r # <<>> /\ Head(r) = " " THEN Tail(r) ELSE r

RECURSIVE DataOf(_, _)
DataOf(ls, i) ==
  IF i > Len(ls) THEN <<>>
  ELSE (IF ls[i].field = "data" THEN StripOneSpace(ls[i].rest) ELSE <<>>)
       \o DataOf(ls, i + 1)

\* C35: for every `data:` line the text after the colon is appended to the
\* data buffer with exactly one leading space removed; further leading
\* spaces are kept, a value without a leading space is appended unchanged.
C35_OneLeadingSpaceStripped ==
  (\A i \in 1..Len(sseSince) : sseSince[i].field = "data" => sseSince[i].colon) =>
    sseBody = DataOf(sseSince, 1)

\* What the lines since the previous blank line hold, by the parser's own
\* reading of a single line: the values of the data lines in order, and the
\* value of the last event line and of the last id line.
RECURSIVE BodyOfLines(_, _)
BodyOfLines(ls, i) ==
  IF i > Len(ls) THEN <<>>
  ELSE (IF ls[i].field = "data" THEN TrimLeft(AfterColon(ls[i])) ELSE <<>>)
       \o BodyOfLines(ls, i + 1)

LastWith(ls, k) ==
  CHOOSE i \in 1..Len(ls) :
    ls[i].field = k /\ \A j \in (i + 1)..Len(ls) : ls[j].field # k

MetaOfLines(ls) ==
  [k \in {f \in {"event", "id"} : \E i \in 1..Len(ls) : ls[i].field = f} |->
     TrimLeft(AfterColon(ls[LastWith(ls, k)]))]

\* C36: each chunk is emitted on a blank line and carries exactly the data
\* and the event/id metadata of the lines received since the previous blank
\* line: comment lines and unknown keys contribute nothing, a repeated
\* event or id key overwrites the earlier value, and no data or metadata of
\* one event appears in a later chunk.
C36_ChunkIsItsEvent ==
  /\ sseChunk # <<>> =>
       sseChunk[1] = SseChunk(BodyOfLines(sseFrom, 1), MetaOfLines(sseFrom))
  /\ sseBody = BodyOfLines(sseSince, 1)
  /\ sseMeta = MetaOfLines(sseSince)

\* C36 witness: an event of two event lines and a data line, dispatched.
C36_Witness ==
  /\ sseChunk # <<>> /\ sseN = 4
  /\ sseFrom = <<SseLineOf("event", TRUE, <<" ", "x">>),
                 SseLineOf("event", TRUE, <<"y">>),
                 SseLineOf("data", TRUE, <<" ", "x">>)>>
  /\ sseChunk[1] = SseChunk(<<"x">>, [k \in {"event"} |-> <<"y">>])
  /\ sseBody = <<>> /\ sseMeta = NoSseMeta

\* ------------------------------------------------------------------------
\* ModelRepoFileBased.UpdateFromConfig
\* ------------------------------------------------------------------------
MaxRepoBackends == 2       \* model backends of the configuration
RepoBackends == 1..MaxRepoBackends
HeaderKeys == {"h1", "h2"}

\* A map[string]string: nil, or the map m.
HeaderMap(isNil, m) == [isNil |-> isNil, m |-> m]
NilMap == HeaderMap(TRUE, [k \in {} |-> ""])
MapsOf(v) == {HeaderMap(FALSE, [k \in ks |-> v]) : ks \in SUBSET HeaderKeys}

\* A model backend of the configuration: whether it has `use` naming the
\* global backend, and its own extra_headers.
BackendConfs(b) ==
  [use : BOOLEAN,
   extraHeaders : {NilMap} \cup MapsOf(IF b = 1 THEN "b1" ELSE "other")]

\* for k, v := range backend.ExtraHeaders { finalBackend.ExtraHeaders[k] = v }
PutAll(hm, o) ==
  HeaderMap(FALSE, [k \in DOMAIN hm.m \cup DOMAIN o.m |->
                      IF k \in DOMAIN o.m THEN o.m[k] ELSE hm.m[k]])

\* finalBackend = *globalBackend copies the struct, not the map it points
\* to: finalBackend.ExtraHeaders is the map of the global backend, unless
\* that is nil.
SharesGlobalMap(bc, g) == bc.use /\ ~g.isNil

\* UpdateFromConfig(conf) starts: conf has one global backend and the model
\* backends.
RepoUpdateStart ==
  /\ repoPc = "idle"
  /\ \E g \in {NilMap} \cup MapsOf("g"),
        bcs \in [RepoBackends -> UNION {BackendConfs(b) : b \in RepoBackends}] :
       /\ \A b \in RepoBackends : bcs[b] \in BackendConfs(b)
       /\ repoGlobal0' = g
       /\ repoGlobal' = g
       /\ repoConf' = bcs
  /\ repoFinal' = [b \in {} |-> [shared |-> FALSE, own |-> NilMap]]
  /\ repoPc' = "loop"
  /\ UNCHANGED notRepo

\* One iteration of the loops over conf.Models and model.Backends, which
\* range over maps: the backends come in any order.
RepoBackend ==
  /\ repoPc = "loop"
  /\ \E b \in RepoBackends \ DOMAIN repoFinal :
       LET bc == repoConf[b]
           shared == SharesGlobalMap(bc, repoGlobal)
           start == IF bc.use THEN repoGlobal ELSE NilMap
       IN /\ repoGlobal' = IF shared /\ ~bc.extraHeaders.isNil
                           THEN PutAll(repoGlobal, bc.extraHeaders)
                           ELSE repoGlobal
          /\ repoFinal' =
               [x \in DOMAIN repoFinal \cup {b} |->
                  IF x # b THEN repoFinal[x]
                  ELSE [shared |-> shared,
                        own |-> IF shared THEN NilMap
                                ELSE IF bc.extraHeaders.isNil THEN start
                                ELSE PutAll(start, bc.extraHeaders)]]
  /\ UNCHANGED <<repoPc, repoConf, repoGlobal0>>
  /\ UNCHANGED notRepo

\* m.modelBackendConfig = newBackends, under m.mu
RepoStore ==
  /\ repoPc = "loop"
  /\ DOMAIN repoFinal = RepoBackends
  /\ repoPc' = "stored"
  /\ UNCHANGED <<repoConf, repoGlobal0, repoGlobal, repoFinal>>
  /\ UNCHANGED notRepo

RepoNext == RepoUpdateStart \/ RepoBackend \/ RepoStore

\* The ExtraHeaders a stored backend descriptor holds.
StoredHeaders(b) ==
  IF repoFinal[b].shared THEN repoGlobal ELSE repoFinal[b].own

\* C39: UpdateFromConfig does not modify the configuration it reads: the
\* global descriptor's headers stay unchanged, and every model backend that
\* references the global backend resolves to the global headers plus only
\* its own overrides, whatever the order of processing.
C39_ConfigNotModified ==
  /\ repoGlobal = repoGlobal0
  /\ repoPc = "stored" =>
       \A b \in RepoBackends :
         repoConf[b].use =>
           StoredHeaders(b).m =
             (IF repoConf[b].extraHeaders.isNil THEN repoGlobal0
              ELSE PutAll(repoGlobal0, repoConf[b].extraHeaders)).m

\* ------------------------------------------------------------------------
\* httpHandler under ErrorHandlingMiddleware: what reaches the ResponseWriter
\* ------------------------------------------------------------------------
MaxStreamChunks == 3       \* chunks of a response stream

\* The ResponseWriter of one request: the status the server committed (0 for
\* none yet), the codes of the WriteHeader calls made on it, and the writes.
NewWriter == [committed |-> 0, headerCalls |-> <<>>, written |-> <<>>]

\* w.WriteHeader(code): net/http commits the first code and ignores a later
\* call.
WriterWriteHeader(w, code) ==
  [w EXCEPT !.headerCalls = Append(@, code),
            !.committed = IF @ = 0 THEN code ELSE @]

\* w.Write(b): commits 200 when no status was committed, then sends b.
WriterWrite(w, b) ==
  [w EXCEPT !.committed = IF @ = 0 THEN 200 ELSE @,
            !.written = Append(@, b)]

RECURSIVE WriterWriteAll(_, _)
WriterWriteAll(w, bs) ==
  IF bs = <<>> THEN w ELSE WriterWriteAll(WriterWrite(w, Head(bs)), Tail(bs))

\* What engine.Process(u) returns to httpHandler.
NoHandlerError == 0
UpstreamStatuses == {429, 503}
HandlerErrorStatuses == {400, 403}
ProcessResults ==
  {[kind |-> "resperr", status |-> s, chunks |-> 0] : s \in UpstreamStatuses}
  \cup {[kind |-> "handlererr", status |-> s, chunks |-> 0] : s \in HandlerErrorStatuses}
  \cup {[kind |-> "othererr", status |-> 500, chunks |-> 0]}
  \cup {[kind |-> "stream", status |-> 200, chunks |-> n] : n \in 0..MaxStreamChunks}
  \cup {[kind |-> k, status |-> 200, chunks |-> 0] : k \in {"body", "empty"}}

\* The writes httpHandler makes for one chunk with the given metadata.
ChunkWrites(hasEvent, hasId) ==
  (IF hasEvent THEN <<"event: ">> ELSE <<>>)
  \o (IF hasId THEN <<"id: ">> ELSE <<>>)
  \o <<"data: ", "chunk", "\n\n">>

\* The handler runs up to the point where it has the response: on an
\* UpstreamRespError it writes the status, the headers, the status again
\* and the body and returns; on any other error it stores a HandlerError in
\* the request context and returns; on a response it copies the headers and
\* writes 200.
HandlerProcess ==
  /\ hhPc = "idle"
  /\ \E res \in ProcessResults :
       /\ hRes' = res
       /\ hW' = CASE res.kind = "resperr" ->
                       WriterWrite(
                         WriterWriteHeader(WriterWriteHeader(NewWriter, res.status),
                                           res.status),
                         "upstream body")
                  [] res.kind \in {"handlererr", "othererr"} -> NewWriter
                  [] OTHER -> WriterWriteHeader(NewWriter, 200)
       /\ hErr' = IF res.kind \in {"handlererr", "othererr"} THEN res.status
                  ELSE NoHandlerError
       /\ hLeft' = res.chunks
       /\ hhPc' = CASE res.kind = "stream" -> "stream"
                   [] res.kind = "body" -> "body"
                   [] OTHER -> "middleware"
  /\ UNCHANGED notHh

\* for chunk := range resp.Stream.Chan(): chunk.Body.Bytes() succeeds and
\* the chunk is written, or fails and the handler stores a HandlerError of
\* status 500 and returns.
HandlerChunk ==
  /\ hhPc = "stream" /\ hLeft > 0
  /\ \/ /\ \E hasEvent, hasId \in BOOLEAN :
             hW' = WriterWriteAll(hW, ChunkWrites(hasEvent, hasId))
        /\ hLeft' = hLeft - 1
        /\ UNCHANGED <<hhPc, hErr>>
     \/ /\ hErr' = 500
        /\ hhPc' = "middleware"
        /\ UNCHANGED <<hW, hLeft>>
  /\ UNCHANGED hRes
  /\ UNCHANGED notHh

\* The channel is closed: the loop ends and the handler returns.
HandlerStreamClosed ==
  /\ hhPc = "stream" /\ hLeft = 0
  /\ hhPc' = "middleware"
  /\ UNCHANGED <<hRes, hW, hErr, hLeft>>
  /\ UNCHANGED notHh

\* rd, err := resp.Body.Reader(): io.Copy(w, rd), or a HandlerError of
\* status 500.
HandlerBody ==
  /\ hhPc = "body"
  /\ \/ /\ hW' = WriterWrite(hW, "body")
        /\ UNCHANGED hErr
     \/ /\ hErr' = 500
        /\ UNCHANGED hW
  /\ hhPc' = "middleware"
  /\ UNCHANGED <<hRes, hLeft>>
  /\ UNCHANGED notHh

\* ErrorHandlingMiddleware after next.ServeHTTP: when the context holds a
\* HandlerError, WriteHeader(err.StatusCode) and the JSON error object.
MiddlewareAfter ==
  /\ hhPc = "middleware"
  /\ hW' = IF hErr = NoHandlerError THEN hW
           ELSE WriterWrite(WriterWriteHeader(hW, hErr), "{\"error\"}")
  /\ hhPc' = "done"
  /\ UNCHANGED <<hRes, hErr, hLeft>>
  /\ UNCHANGED notHh

\* The server takes the next request.
HandlerNextRequest ==
  /\ hhPc = "done"
  /\ hhPc' = "idle"
  /\ hW' = NewWriter
  /\ hErr' = NoHandlerError
  /\ UNCHANGED <<hRes, hLeft>>
  /\ UNCHANGED notHh

HhNext ==
  \/ HandlerProcess
  \/ HandlerChunk
  \/ HandlerStreamClosed
  \/ HandlerBody
  \/ MiddlewareAfter
  \/ HandlerNextRequest

\* C40: for every request the status is written at most once, on the
\* success path, on the upstream-response error path and when a chunk or
\* body read fails after 200 was written; and no JSON error object is
\* appended to a response that has already started.
C40_StatusCommittedOnce ==
  /\ Len(hW.headerCalls) <= 1
  /\ \A i \in 1..Len(hW.written) : hW.written[i] = "{\"error\"}" => i = 1

\* ------------------------------------------------------------------------
\* The streaming pipeline: the producer goroutine of HTTPEndpoint.Process,
\* the goroutine of RewriteEngine.Process, the write loop of httpHandler
\* ------------------------------------------------------------------------
MaxLines == 5

\* An upstream line is blank, a data line with content, `data: [DONE]`, or
\* an `event:` line.
LineKinds == {"blank", "data", "done", "event"}
Scripts == UNION {[1..n -> LineKinds] : n \in 0..MaxLines}

\* The bytes "[DONE]"; the content of the data line at position i is i.
DoneMark == 0
LineBytes(kind, i) == IF kind = "done" THEN DoneMark ELSE i

\* &octollm.StreamChunk{Body: octollm.NewBodyFromBytes(bodyBuffer, ...)}
\* Metadata is nil, or holds the value of the event line at position i.
NoMeta == 0
StreamChunk(b) == [body |-> b, meta |-> NoMeta, rewritten |-> FALSE]
NoChunk == StreamChunk(<<>>)

\* if len(metaBuffer) > 0 { chunk.Metadata = metaBuffer }
WithMetadata(c, mb) == IF mb # NoMeta THEN [c EXCEPT !.meta = mb] ELSE c

\* A plausible slip: an event without data counts as unreadable.
ChunkBytesErr_Empty(c) == c.body = <<>>

\* chunk.Body.Bytes() fails: never, the body of a chunk holds its bytes.
ChunkBytesErr(c) == c.body # c.body

\* A plausible slip: the rewritten bytes are sent in a new chunk.
Rewrite_NewChunk(c) == [StreamChunk(c.body) EXCEPT !.rewritten = TRUE]

\* chunk.Body.SetBytes(chunkRewriter.RewriteJSON(b)): the same chunk, its
\* bytes rewritten by the policy.
Rewrite(c) == [c EXCEPT !.rewritten = TRUE]

\* What the handler writes for a chunk: "event: " + event + "\n" if the
\* chunk has one, then "data: " + b + "\n\n".
Frame(c) == [event |-> c.meta, data |-> c.body, rewritten |-> c.rewritten]

\* ctx.Err() != nil for the context derived in HTTPEndpoint.Process and for
\* the one derived in RewriteEngine.Process.
ProdCtxDone == reqCtxDone \/ streamCtxDone
RwCtxDone == reqCtxDone \/ rwCtxDone

\* HTTPEndpoint.Process returns a stream (upstream answered 200 with
\* text/event-stream), RewriteEngine.Process wraps it if it has a
\* StreamChunkRewrite policy, and httpHandler starts ranging over it.
\* upstream will send the lines of the script and then end the body (ends)
\* or keep the connection open without sending anything.
HTTPProcess ==
  /\ prodPc = "idle"
  /\ \E lines \in Scripts, ends \in BOOLEAN, rw \in BOOLEAN :
       /\ upLines' = lines
       /\ upEnds' = ends
       /\ rwPc' = IF rw THEN "recv" ELSE "none"
  /\ upRead' = 0
  /\ prodPc' = "scan"
  /\ hPc' = "recv"
  /\ UNCHANGED <<bodyBuffer, metaBuffer, prodChunk, rwChunk, written, reqCtxDone,
                 streamCtxDone, rwCtxDone, chClosed, respBodyClosed>>
  /\ UNCHANGED notPipe

\* scanner.Scan() returns a line; one iteration of the loop up to the select.
ProdScan ==
  /\ prodPc = "scan"
  /\ upRead < Len(upLines)
  /\ upRead' = upRead + 1
  /\ IF ProdCtxDone
     THEN /\ prodPc' = "exited"
          /\ chClosed' = TRUE
          /\ respBodyClosed' = TRUE
          /\ UNCHANGED <<bodyBuffer, metaBuffer, prodChunk>>
     ELSE IF upLines[upRead + 1] = "blank"
     THEN /\ prodChunk' = WithMetadata(StreamChunk(bodyBuffer), metaBuffer)
          /\ bodyBuffer' = <<>>
          /\ metaBuffer' = NoMeta
          /\ prodPc' = "send"
          /\ UNCHANGED <<chClosed, respBodyClosed>>
     ELSE IF upLines[upRead + 1] = "event"
     THEN /\ metaBuffer' = upRead + 1
          /\ UNCHANGED <<bodyBuffer, prodPc, prodChunk, chClosed, respBodyClosed>>
     ELSE /\ bodyBuffer' =
               Append(bodyBuffer, LineBytes(upLines[upRead + 1], upRead + 1))
          /\ UNCHANGED <<metaBuffer, prodPc, prodChunk, chClosed, respBodyClosed>>
  /\ UNCHANGED <<upLines, upEnds, rwPc, rwChunk, hPc, written, reqCtxDone,
                 streamCtxDone, rwCtxDone>>
  /\ UNCHANGED notPipe

\* scanner.Scan() returns false: upstream ended the body, or the read was
\* aborted because the context of the upstream request (req.Context()) is
\* done.  The deferred resp.Body.Close() and close(ch) run.
ProdScanEnd ==
  /\ prodPc = "scan"
  /\ (upEnds /\ upRead = Len(upLines)) \/ reqCtxDone
  /\ prodPc' = "exited"
  /\ chClosed' = TRUE
  /\ respBodyClosed' = TRUE
  /\ UNCHANGED <<upLines, upEnds, upRead, bodyBuffer, metaBuffer, prodChunk, rwPc,
                 rwChunk, hPc, written, reqCtxDone, streamCtxDone, rwCtxDone>>
  /\ UNCHANGED notPipe

\* case <-ctx.Done(): return
ProdSendCancelled ==
  /\ prodPc = "send"
  /\ ProdCtxDone
  /\ prodPc' = "exited"
  /\ chClosed' = TRUE
  /\ respBodyClosed' = TRUE
  /\ UNCHANGED <<upLines, upEnds, upRead, bodyBuffer, metaBuffer, prodChunk, rwPc,
                 rwChunk, hPc, written, reqCtxDone, streamCtxDone, rwCtxDone>>
  /\ UNCHANGED notPipe

\* case ch <- chunk, received by the loop of httpHandler: it writes the
\* frame, or returns (with its deferred resp.Stream.Close()) if Bytes fails.
ProdSendToHandler ==
  /\ prodPc = "send"
  /\ rwPc = "none"
  /\ hPc = "recv"
  /\ prodPc' = "scan"
  /\ IF ChunkBytesErr(prodChunk)
     THEN /\ hPc' = "done"
          /\ streamCtxDone' = TRUE
          /\ UNCHANGED written
     ELSE /\ written' = Append(written, Frame(prodChunk))
          /\ UNCHANGED <<hPc, streamCtxDone>>
  /\ UNCHANGED <<upLines, upEnds, upRead, bodyBuffer, metaBuffer, prodChunk, rwPc,
                 rwChunk, reqCtxDone, rwCtxDone, chClosed, respBodyClosed>>
  /\ UNCHANGED notPipe

\* case ch <- chunk, received by the goroutine of RewriteEngine.Process: it
\* rewrites the chunk and goes to its select, or continues if Bytes fails.
ProdSendToRewriter ==
  /\ prodPc = "send"
  /\ rwPc = "recv"
  /\ prodPc' = "scan"
  /\ IF ChunkBytesErr(prodChunk)
     THEN UNCHANGED <<rwPc, rwChunk>>
     ELSE /\ rwChunk' = Rewrite(prodChunk)
          /\ rwPc' = "send"
  /\ UNCHANGED <<upLines, upEnds, upRead, bodyBuffer, metaBuffer, prodChunk, hPc,
                 written, reqCtxDone, streamCtxDone, rwCtxDone, chClosed,
                 respBodyClosed>>
  /\ UNCHANGED notPipe

\* case rewritenChunk <- chunk, received by the loop of httpHandler.
RwSendToHandler ==
  /\ rwPc = "send"
  /\ hPc = "recv"
  /\ rwPc' = "recv"
  /\ IF ChunkBytesErr(rwChunk)
     THEN /\ hPc' = "done"
          /\ streamCtxDone' = TRUE
          /\ rwCtxDone' = TRUE
          /\ UNCHANGED written
     ELSE /\ written' = Append(written, Frame(rwChunk))
          /\ UNCHANGED <<hPc, streamCtxDone, rwCtxDone>>
  /\ UNCHANGED <<upLines, upEnds, upRead, prodPc, bodyBuffer, metaBuffer, prodChunk,
                 rwChunk, reqCtxDone, chClosed, respBodyClosed>>
  /\ UNCHANGED notPipe

\* case <-ctx.Done(): return, with the deferred close(rewritenChunk).
RwSendCancelled ==
  /\ rwPc = "send"
  /\ RwCtxDone
  /\ rwPc' = "exited"
  /\ UNCHANGED <<upLines, upEnds, upRead, prodPc, bodyBuffer, metaBuffer, prodChunk,
                 rwChunk, hPc, written, reqCtxDone, streamCtxDone, rwCtxDone,
                 chClosed, respBodyClosed>>
  /\ UNCHANGED notPipe

\* range originalStream.Chan() ends: ch is closed.
RwSrcEnd ==
  /\ rwPc = "recv"
  /\ chClosed
  /\ rwPc' = "exited"
  /\ UNCHANGED <<upLines, upEnds, upRead, prodPc, bodyBuffer, metaBuffer, prodChunk,
                 rwChunk, hPc, written, reqCtxDone, streamCtxDone, rwCtxDone,
                 chClosed, respBodyClosed>>
  /\ UNCHANGED notPipe

\* range resp.Stream.Chan() ends in httpHandler: the channel it reads is
\* closed.  The handler returns and its deferred resp.Stream.Close() runs.
\* Close calls the cancel of HTTPEndpoint.Process and, with a rewriter
\* in between, the cancel of RewriteEngine.Process as well.
HandlerStreamEnd ==
  /\ hPc = "recv"
  /\ IF rwPc = "none" THEN chClosed ELSE rwPc = "exited"
  /\ hPc' = "done"
  /\ streamCtxDone' = TRUE
  /\ rwCtxDone' = (rwPc # "none")
  /\ UNCHANGED <<upLines, upEnds, upRead, prodPc, bodyBuffer, metaBuffer, prodChunk,
                 rwPc, rwChunk, written, reqCtxDone, chClosed, respBodyClosed>>
  /\ UNCHANGED notPipe

\* A consumer that leaves its loop after a chunk it has received (the
\* converter at [DONE] or at a chunk it cannot parse, with its deferred
\* src.Close()): it calls Close on the stream and receives no more.
ConsumerLeaves ==
  /\ hPc = "recv"
  /\ written # <<>>
  /\ hPc' = "stopped"
  /\ streamCtxDone' = TRUE
  /\ rwCtxDone' = (rwPc # "none")
  /\ UNCHANGED <<upLines, upEnds, upRead, prodPc, bodyBuffer, metaBuffer, prodChunk,
                 rwPc, rwChunk, written, reqCtxDone, chClosed, respBodyClosed>>
  /\ UNCHANGED notPipe

\* The context of the request is cancelled.
ReqCtxCancel ==
  /\ prodPc # "idle"
  /\ ~reqCtxDone
  /\ reqCtxDone' = TRUE
  /\ UNCHANGED <<upLines, upEnds, upRead, prodPc, bodyBuffer, metaBuffer, prodChunk,
                 rwPc, rwChunk, hPc, written, streamCtxDone, rwCtxDone,
                 chClosed, respBodyClosed>>
  /\ UNCHANGED notPipe

PipeNext ==
  \/ HTTPProcess
  \/ ProdScan
  \/ ProdScanEnd
  \/ ProdSendCancelled
  \/ ProdSendToHandler
  \/ ProdSendToRewriter
  \/ RwSendToHandler
  \/ RwSendCancelled
  \/ RwSrcEnd
  \/ HandlerStreamEnd
  \/ ConsumerLeaves
  \/ ReqCtxCancel

\* The events of an upstream line sequence: the data and the last event
\* name collected up to each blank line (lines from position i on, buf and
\* mb collected so far).
RECURSIVE Dispatch(_, _, _, _)
Dispatch(lines, i, buf, mb) ==
  IF i > Len(lines) THEN <<>>
  ELSE IF lines[i] = "blank"
  THEN <<[body |-> buf, meta |-> mb]>> \o Dispatch(lines, i + 1, <<>>, NoMeta)
  ELSE IF lines[i] = "event" THEN Dispatch(lines, i + 1, buf, i)
  ELSE Dispatch(lines, i + 1, Append(buf, LineBytes(lines[i], i)), mb)

\* The events of the lines the producer has read.
EventsRead == Dispatch(SubSeq(upLines, 1, upRead), 1, <<>>, NoMeta)

\* n content frames followed by the [DONE] frame.
ContentThenDone(n) ==
  [i \in 1..(2 * n + 2) |->
     IF i % 2 = 0 THEN "blank" ELSE IF i = 2 * n + 1 THEN "done" ELSE "data"]

\* C17: for a stream passed through without conversion, when upstream sends
\* n content frames and then the [DONE] frame, the handler writes exactly
\* the n content frames, in upstream order; [DONE] is not written.
C17_DoneNotWritten ==
  \A n \in 0..((MaxLines - 2) \div 2) :
    (upLines = ContentThenDone(n) /\ rwPc = "none" /\ hPc = "done" /\ ~reqCtxDone)
      => written = [i \in 1..n |-> Frame(StreamChunk(<<2 * i - 1>>))]

\* C18: through producer, rewriter and handler, with a consumer that keeps
\* reading, the frames written are the events dispatched from the upstream
\* lines read so far, in the same order, none twice, and none is missing
\* once the handler has returned (unless the request was cancelled).
C18_NoReorderDupDrop ==
  LET evs == EventsRead
  IN (rwPc # "none" /\ hPc # "stopped") =>
       /\ Len(written) <= Len(evs)
       /\ \A i \in 1..Len(written) :
            written[i] =
              Frame(Rewrite(WithMetadata(StreamChunk(evs[i].body), evs[i].meta)))
       /\ (hPc = "done" /\ ~reqCtxDone) =>
            /\ upRead = Len(upLines)
            /\ Len(written) = Len(evs)

\* C18 witness: three events, one of them without data, went through the
\* rewriter and the handler has returned.
C18_Witness ==
  /\ rwPc = "exited" /\ hPc = "done" /\ ~reqCtxDone
  /\ Len(written) = 3
  /\ \E i \in 1..3 : written[i].data = <<>>
  /\ \E i \in 1..3 : written[i].data # <<>>

\* C23: with a stream-chunk rewrite policy, and neither a cancellation nor
\* a consumer that left, the rewriter's stream delivers one chunk per chunk
\* it received from upstream, in the same order, each with the metadata of
\* the upstream chunk and with its bytes rewritten; none is dropped.
C23_RewriterChunkForChunk ==
  LET evs == EventsRead
      sent == Len(evs) - (IF prodPc = "send" THEN 1 ELSE 0)
      got == Len(written) + (IF rwPc = "send" THEN 1 ELSE 0)
  IN (rwPc # "none" /\ ~reqCtxDone /\ hPc # "stopped") =>
       /\ got = sent
       /\ \A i \in 1..Len(written) :
            /\ written[i].event = evs[i].meta
            /\ written[i].data = evs[i].body
            /\ written[i].rewritten
       /\ rwPc = "send" =>
            /\ rwChunk.meta = evs[got].meta
            /\ rwChunk.body = evs[got].body
            /\ rwChunk.rewritten

\* C23 witness: two chunks went through the rewriter, the first with an
\* event name and data, the second without metadata.
C23_Witness ==
  /\ rwPc # "none" /\ ~reqCtxDone /\ hPc # "stopped"
  /\ Len(written) = 2
  /\ written[1].event # NoMeta /\ written[1].data # <<>>
  /\ written[2].event = NoMeta

\* C19: once Close was called on the stream of the HTTP client stage, or
\* the request context is cancelled, the producer goroutine eventually
\* exits, its channel is closed and the upstream response body is closed.
C19_ProducerExits ==
  (prodPc # "idle" /\ (streamCtxDone \/ reqCtxDone))
    ~> (prodPc = "exited" /\ chClosed /\ respBodyClosed)

\* ------------------------------------------------------------------------
\* A request served by a composed chain: httpHandler, RuleComposerEngine,
\* the rule engine built by buildEngineByRuleList, DenyEngine
\* ------------------------------------------------------------------------
MaxRuleConfs == 2

\* An http.Header: header name -> its values.  NoHeader is the nil map.
NoHeader == [k \in {} |-> <<>>]
HeaderOf(ks, vs) == [k \in ks |-> vs]

\* What upstream puts in the header of its answer.
UpHeaders ==
  { NoHeader,
    HeaderOf({"Content-Length"}, <<"12">>),
    HeaderOf({"Retry-After"}, <<"1">>),
    HeaderOf({"Content-Length", "Retry-After"}, <<"1">>),
    HeaderOf({"Set-Cookie"}, <<"a", "b">>) }

\* error values: their dynamic type, the fields of an UpstreamRespError, and
\* what Unwrap() gives (nothing for a type without Unwrap).
ErrOf(t, status, header, b, unwrap) ==
  [type |-> t, status |-> status, header |-> header, body |-> b,
   unwrap |-> unwrap]
NilErr == ErrOf("nil", 0, NoHeader, "", <<>>)
\* the error of DenyEngine.Process, which sets no Header
UpstreamRespError(status, b) ==
  ErrOf("*UpstreamRespError", status, NoHeader, b, <<>>)
\* the error of HTTPEndpoint.Process for an answer other than 200
UpstreamRespErrorOf(status, header, b) ==
  ErrOf("*UpstreamRespError", status, header, b, <<>>)
UpstreamHTTPError == ErrOf("*UpstreamHTTPError", 0, NoHeader, "", <<>>)
ErrRuleActionError == ErrOf("*errors.errorString", 0, NoHeader, "", <<>>)

\* A plausible slip: the error is formatted with %v, which wraps nothing.
RuleActionErrorf_Opaque(err) ==
  ErrOf("*fmt.wrapErrors", 0, NoHeader, "", <<ErrRuleActionError>>)

\* fmt.Errorf("%w: %w", ErrRuleActionError, err)
RuleActionErrorf(err) ==
  ErrOf("*fmt.wrapErrors", 0, NoHeader, "", <<ErrRuleActionError, err>>)

\* errors.As(err, &target) for a target of type t: the first error of type t
\* in the tree of err, depth first (NilErr if there is none).
RECURSIVE ErrorsAs(_, _)
RECURSIVE ErrorsAsAny(_, _)
ErrorsAs(err, t) ==
  IF err.type = t THEN err ELSE ErrorsAsAny(err.unwrap, t)
ErrorsAsAny(errs, t) ==
  IF errs = <<>> THEN NilErr
  ELSE IF ErrorsAs(Head(errs), t) # NilErr THEN ErrorsAs(Head(errs), t)
  ELSE ErrorsAsAny(Tail(errs), t)

\* deny: {reason_text, http_status_code} of a rule descriptor
DenyEngines ==
  {[reason |-> r, status |-> s] : r \in {"no streaming", "over quota"}, s \in {403, 429}}
NoDeny == [reason |-> "", status |-> 0]

\* A rule of the chain: does its matcher match the request, and its stage:
\* a deny stage, or (deny = NoDeny) a stage that forwards to backends.
ChainRule(mt, deny) == [match |-> mt, deny |-> deny]
RuleConfs == {ChainRule(mt, d) : mt \in BOOLEAN, d \in DenyEngines \cup {NoDeny}}
RuleLists == UNION {[1..n -> RuleConfs] : n \in 0..MaxRuleConfs}

\* buildEngineByRuleList: the rules of the configuration, then the fallback
\* rule with AlwaysTrueMatcher and the default stage.
BuildEngineByRuleList(ruleConfs) == Append(ruleConfs, ChainRule(TRUE, NoDeny))

\* What a backend stage answers: a response, an error response of upstream,
\* or a failure of the HTTP exchange; and the header of upstream's answer.
BackendOutcomes == {"ok", "resperr", "httperr"}
BackendAnswer(o, h) == [outcome |-> o, header |-> h]
BackendAnswers == {BackendAnswer(o, h) : o \in BackendOutcomes, h \in UpHeaders}
BackendResult(a) ==
  CASE a.outcome = "ok" -> NilErr
    [] a.outcome = "resperr" -> UpstreamRespErrorOf(500, a.header, "upstream failed")
    [] OTHER -> UpstreamHTTPError

\* What the client received: status, header and body.
ClientRespOf(status, header, b) == [status |-> status, header |-> header, body |-> b]
ClientResp(status, b) == ClientRespOf(status, NoHeader, b)
NoClientResp == ClientResp(0, "")

\* The http.ResponseWriter: w.Header(), whether the header was written, and
\* what went on the wire.
NewResponseWriter ==
  [header |-> NoHeader, wroteHeader |-> FALSE, sent |-> ClientResp(0, "")]

\* w.WriteHeader(code): the first call sends the status and the header map
\* as it is then; a later call does nothing.
WriteHeader(w, code) ==
  IF w.wroteHeader THEN w
  ELSE [w EXCEPT !.wroteHeader = TRUE,
                 !.sent = ClientRespOf(code, w.header, "")]

\* w.Write(b): writes the header with 200 if that was not done, then b.
Write(w, b) ==
  LET w1 == WriteHeader(w, 200) IN [w1 EXCEPT !.sent.body = b]

\* for k, v := range h { if k == "Content-Length" { continue } ... }
CopiedKeys(h) == DOMAIN h \ {"Content-Length"}

\* ... w.Header().Set(k, v[0]) for each of them
CopyHeader(w, h) ==
  [w EXCEPT !.header =
     [k \in DOMAIN w.header \cup CopiedKeys(h) |->
        IF k \in CopiedKeys(h) THEN <<h[k][1]>> ELSE w.header[k]]]

\* httpHandler for an UpstreamRespError e: WriteHeader, the header loop,
\* WriteHeader again, Write.
WriteUpstreamRespError(w, e) ==
  Write(WriteHeader(CopyHeader(WriteHeader(w, e.status), e.header), e.status),
        e.body)

\* httpHandler for a response: the header loop, WriteHeader(200), the body.
WriteResponse(w, h, b) == Write(WriteHeader(CopyHeader(w, h), 200), b)

\* Any other error: ErrorHandlingMiddleware writes the status of the
\* HandlerError made by WithError and its message.
WriteHandlerError(w, status, msg) == Write(WriteHeader(w, status), msg)

\* httpHandler calls engine.Process(u): RuleComposerEngine.Process gets the
\* rule engine of the (org, model) and the loop over its chain starts.
ServeRequest ==
  /\ sPc = "idle"
  /\ \E rl \in RuleLists, a \in BackendAnswers :
       /\ sChain' = BuildEngineByRuleList(rl)
       /\ sBackend' = a
  /\ sPc' = "rules"
  /\ sIdx' = 1
  /\ UNCHANGED <<sBackendCalls, sErr, client>>
  /\ UNCHANGED notServe

\* if !r.Matcher.Match(req) { continue }
ServeRuleSkip ==
  /\ sPc = "rules"
  /\ sIdx <= Len(sChain)
  /\ ~sChain[sIdx].match
  /\ sIdx' = sIdx + 1
  /\ UNCHANGED <<sChain, sBackend, sPc, sBackendCalls, sErr, client>>
  /\ UNCHANGED notServe

\* The rule matches and its stage is a DenyEngine: Process returns an
\* UpstreamRespError, which is not an ErrWithAction, so the loop returns it
\* wrapped.
ServeRuleDeny ==
  /\ sPc = "rules"
  /\ sIdx <= Len(sChain)
  /\ sChain[sIdx].match
  /\ sChain[sIdx].deny # NoDeny
  /\ sErr' = RuleActionErrorf(
               UpstreamRespError(sChain[sIdx].deny.status, sChain[sIdx].deny.reason))
  /\ sPc' = "respond"
  /\ UNCHANGED <<sChain, sBackend, sIdx, sBackendCalls, client>>
  /\ UNCHANGED notServe

\* The rule matches and its stage forwards: a backend is invoked.
ServeRuleForward ==
  /\ sPc = "rules"
  /\ sIdx <= Len(sChain)
  /\ sChain[sIdx].match
  /\ sChain[sIdx].deny = NoDeny
  /\ sBackendCalls' = sBackendCalls + 1
  /\ sErr' = IF sBackend.outcome = "ok" THEN NilErr
             ELSE RuleActionErrorf(BackendResult(sBackend))
  /\ sPc' = "respond"
  /\ UNCHANGED <<sChain, sBackend, sIdx, client>>
  /\ UNCHANGED notServe

\* httpHandler with what engine.Process returned: the response, the status
\* and body of an UpstreamRespError found by errors.As, or 500.
ServeRespond ==
  /\ sPc = "respond"
  /\ client' =
       IF sErr = NilErr
       THEN WriteResponse(NewResponseWriter, sBackend.header, "response").sent
       ELSE IF ErrorsAs(sErr, "*UpstreamRespError") # NilErr
       THEN WriteUpstreamRespError(NewResponseWriter,
                                   ErrorsAs(sErr, "*UpstreamRespError")).sent
       ELSE WriteHandlerError(NewResponseWriter, 500, "Internal Server Error").sent
  /\ sPc' = "served"
  /\ UNCHANGED <<sChain, sBackend, sIdx, sBackendCalls, sErr>>
  /\ UNCHANGED notServe

ServeNext ==
  \/ ServeRequest
  \/ ServeRuleSkip
  \/ ServeRuleDeny
  \/ ServeRuleForward
  \/ ServeRespond

\* The first rule of the chain that the request matches (the fallback rule
\* matches every request).
FirstMatching(ch) ==
  CHOOSE i \in 1..Len(ch) : ch[i].match /\ \A j \in 1..(i - 1) : ~ch[j].match

\* C20: when the rule a request matches (the first matching rule of the
\* composed chain) is a deny rule, no backend stage is invoked and the
\* client receives the rule's http_status_code with its reason_text as body;
\* the UpstreamRespError of the deny stage is found by errors.As in the
\* error the chain returns.
C20_DenyReachesClient ==
  (sPc = "served" /\ sChain[FirstMatching(sChain)].deny # NoDeny) =>
    LET d == sChain[FirstMatching(sChain)].deny
    IN /\ sBackendCalls = 0
       /\ ErrorsAs(sErr, "*UpstreamRespError") = UpstreamRespError(d.status, d.reason)
       /\ client = ClientResp(d.status, d.reason)

\* The header the client is to receive for upstream's header h.
Forwarded(h) == [k \in DOMAIN h \ {"Content-Length"} |-> h[k]]

\* C21: when the chain fails with an UpstreamRespError, the client receives
\* that error's status code, its headers except Content-Length, and its body.
C21_UpstreamRespVerbatim ==
  (sPc = "served" /\ ErrorsAs(sErr, "*UpstreamRespError") # NilErr) =>
    LET e == ErrorsAs(sErr, "*UpstreamRespError")
    IN client = ClientRespOf(e.status, Forwarded(e.header), e.body)

\* C22: when the chain fails with an UpstreamHTTPError, the client is
\* answered with a 502 or 504 status, not with the catch-all 500.
C22_TransportErrorStatus ==
  (sPc = "served" /\ ErrorsAs(sErr, "*UpstreamHTTPError") # NilErr) =>
    client.status \in {502, 504}

\* C20 witness: a forwarding rule that does not match, then a matching
\* deny rule with 403 "no streaming"; the client got 403.
C20_Witness ==
  /\ sPc = "served" /\ Len(sChain) = 3
  /\ ~sChain[1].match /\ sChain[1].deny = NoDeny
  /\ sChain[2] = ChainRule(TRUE, [reason |-> "no streaming", status |-> 403])
  /\ client = ClientResp(403, "no streaming")

\* ------------------------------------------------------------------------
\* Stream converter: properties
\* ------------------------------------------------------------------------
\* The delta items of the processed chat chunks in the order the converter
\* reads them: a chunk's text content first, then its tool calls in order.
Item(t, i) == [t |-> t, i |-> i]

RECURSIVE ToolItems(_)
ToolItems(tcs) ==
  IF tcs = <<>> THEN <<>>
  ELSE <<Item("tool", Head(tcs).index)>> \o ToolItems(Tail(tcs))

ChunkItems(c) ==
  IF c.kind = "chunk" /\ c.choices
  THEN (IF c.content THEN <<Item("text", -1)>> ELSE <<>>) \o ToolItems(c.toolCalls)
  ELSE <<>>

RECURSIVE Items(_)
Items(cs) == IF cs = <<>> THEN <<>> ELSE ChunkItems(Head(cs)) \o Items(Tail(cs))

\* Consecutive equal items belong to one block.
RECURSIVE Collapse(_)
Collapse(items) ==
  IF Len(items) <= 1 THEN items
  ELSE IF items[1] = items[2] THEN Collapse(Tail(items))
       ELSE <<items[1]>> \o Collapse(Tail(items))

\* The blocks the emitted events open, in order.
RECURSIVE OutBlocks(_)
OutBlocks(evs) ==
  IF evs = <<>> THEN <<>>
  ELSE (IF Head(evs).type = "content_block_start"
        THEN <<IF Head(evs).kind = "text" THEN Item("text", -1)
               ELSE Item("tool", Head(evs).b)>>
        ELSE <<>>) \o OutBlocks(Tail(evs))

\* The block grammar of the messages stream, read left to right:
\* open is the index of the open block (-1: none), openKind its type,
\* next the index the next block must carry, pos the events read.
ScanInit == [ok |-> TRUE, open |-> -1, openKind |-> "", next |-> 0, pos |-> 0]

ScanStep(st, e) ==
  LET good ==
        CASE e.type = "message_start" -> st.pos = 0
          [] e.type = "content_block_start" -> st.open = -1 /\ e.index = st.next
          [] e.type = "content_block_delta" ->
               /\ st.open # -1 /\ e.index = st.open
               /\ (st.openKind = "text" <=> e.kind = "text_delta")
               /\ (st.openKind = "tool_use" <=> e.kind = "input_json_delta")
          [] e.type = "content_block_stop" -> st.open # -1 /\ e.index = st.open
          [] e.type = "message_delta" -> st.open = -1
          [] e.type = "message_stop" -> st.open = -1
          [] OTHER -> FALSE
  IN [ok |-> st.ok /\ good,
      open |-> IF e.type = "content_block_start" THEN e.index
               ELSE IF e.type = "content_block_stop" THEN -1 ELSE st.open,
      openKind |-> IF e.type = "content_block_start" THEN e.kind
                   ELSE IF e.type = "content_block_stop" THEN "" ELSE st.openKind,
      next |-> IF e.type = "content_block_start" THEN st.next + 1 ELSE st.next,
      pos |-> st.pos + 1]

RECURSIVE Scan(_, _)
Scan(st, evs) ==
  IF evs = <<>> THEN st ELSE Scan(ScanStep(st, Head(evs)), Tail(evs))

\* [DONE] has arrived and all its events have been delivered.
DoneHandled ==
  /\ inChunks # <<>> /\ Last(inChunks).kind = "done"
  /\ sendq = <<>>

\* A chat chunk was parsed before the end of the stream.
SomeChatChunk == \E i \in 1..Len(inChunks) : inChunks[i].kind = "chunk"

\* The events follow the block grammar with indices 0, 1, 2, ...; the blocks
\* opened are exactly the runs of equal delta items; after [DONE] no block
\* is left open.
ConvBlocksWellFormed ==
  /\ Scan(ScanInit, out).ok
  /\ OutBlocks(out \o sendq) = Collapse(Items(inChunks))
  /\ DoneHandled => Scan(ScanInit, out).open = -1

\* C1 (as claimed): for every upstream chunk sequence ending in [DONE] the
\* events are well formed and message_start is the first event.
C1_Original ==
  DoneHandled =>
    /\ out # <<>> /\ out[1].type = "message_start"
    /\ ConvBlocksWellFormed

\* C1 (amended): the events follow the block grammar, block indices are
\* 0, 1, 2, ..., a block is opened exactly when the delta item changes
\* (text <-> tool call, or another tool-call index), and message_start is
\* the first event whenever a chat chunk was parsed; when [DONE] arrives
\* with no chat chunk before it the only event is message_stop.
C1_EventsWellFormed ==
  /\ ConvBlocksWellFormed
  /\ (SomeChatChunk /\ out # <<>>) => out[1].type = "message_start"
  /\ (DoneHandled /\ ~SomeChatChunk) => out = <<EvMessageStop>>

\* C1 witness: the sandwich tool(0), text, tool(1), [DONE] has been converted
\* into the three blocks tool_use, text, tool_use.
C1_Witness ==
  /\ DoneHandled
  /\ Collapse(Items(inChunks)) = <<Item("tool", 0), Item("text", -1), Item("tool", 1)>>
  /\ OutBlocks(out) = <<Item("tool", 0), Item("text", -1), Item("tool", 1)>>
  /\ Last(out).type = "message_stop"

\* C2 (as claimed): whether the stream ends with [DONE] or by inCh closing,
\* the converter closes the open block, emits message_delta when a finish
\* reason was seen, and emits message_stop last before closing outCh.
FinishSeen ==
  \E i \in 1..Len(inChunks) :
    inChunks[i].kind = "chunk" /\ inChunks[i].choices /\ inChunks[i].finish # ""

C2_StreamEndClosed ==
  (convPc = "closed" /\ ~ctxCancelled) =>
    /\ out # <<>> /\ Last(out).type = "message_stop"
    /\ Scan(ScanInit, out).ok /\ Scan(ScanInit, out).open = -1
    /\ FinishSeen => \E i \in 1..Len(out) : out[i].type = "message_delta"

\* The chat chunks among cs that were handled before the end of the stream.
Handled(cs) == SelectSeq(cs, LAMBDA c : c.kind = "chunk")

\* The first non-empty finish_reason of a chunk sequence ("" if none).
FirstFinish(cs) ==
  LET fs == SelectSeq(Handled(cs), LAMBDA c : c.choices /\ c.finish # "")
  IN IF fs = <<>> THEN "" ELSE fs[1].finish

\* The usage of the last chunk that carried one (0 if none).
LastUsage(cs) ==
  LET us == SelectSeq(Handled(cs), LAMBDA c : c.usage # 0)
  IN IF us = <<>> THEN 0 ELSE us[Len(us)].usage

\* C15: the stop_reason of message_delta is the mapping of the first
\* non-empty finish_reason seen upstream; a later chunk with another
\* finish_reason does not replace it.
C15_FirstFinishReasonSticks ==
  \A i \in 1..Len(out) :
    out[i].type = "message_delta" => out[i].a = mapFinishReason(FirstFinish(inChunks))

\* C16: the usage of message_delta is that of the last upstream chunk that
\* carried usage, input_tokens from prompt_tokens and output_tokens from
\* completion_tokens (no usage if no chunk carried one), and message_start
\* carries zero usage.
C16_LastUsageWins ==
  \A i \in 1..Len(out) :
    /\ out[i].type = "message_delta" =>
         out[i].usage = IF LastUsage(inChunks) = 0 THEN NoUsage
                        ELSE MessageUsage(PromptTokens(LastUsage(inChunks)),
                                          CompletionTokens(LastUsage(inChunks)))
    /\ out[i].type = "message_start" => out[i].usage = MessageUsage(0, 0)

\* C16 witness: a chunk with a running usage, then the finish_reason chunk,
\* then a chunk without choices carrying the final usage, then [DONE]; the
\* message_delta received carries the final usage.
C16_Witness ==
  /\ DoneHandled /\ Len(inChunks) = 4
  /\ inChunks[1].usage = 1
  /\ inChunks[2].finish # "" /\ inChunks[2].usage = 0
  /\ ~inChunks[3].choices /\ inChunks[3].usage = 2
  /\ \E i \in 1..Len(out) :
       out[i].type = "message_delta" /\ out[i].usage = MessageUsage(10, 2)

\* C14: in every execution - the consumer drains the stream, the context is
\* cancelled, or the consumer calls Close and stops reading - the converter
\* goroutine eventually stops, has called Close on the upstream stream and
\* has closed its output channel.
C14_ConverterStops == <>(convPc = "closed" /\ srcClosed)

\* ------------------------------------------------------------------------
\* Specifications
\* ------------------------------------------------------------------------
\* Nothing is built yet: no chunk has arrived at the converter, no balancer
\* is constructed.
Init ==
  /\ inChunks = <<>>
  /\ upClosed = FALSE
  /\ ctxCancelled = FALSE
  /\ convPc = "recv"
  /\ breakAfter = FALSE
  /\ cv = ConvLocalsInit
  /\ sendq = <<>>
  /\ out = <<>>
  /\ srcClosed = FALSE
  /\ consumerStopped = FALSE
  /\ backends = <<>>
  /\ wrr = "none"
  /\ calls = 0
  /\ selCount = <<>>
  /\ wrrLog = WrrLogOf(<<>>, <<>>)
  /\ retryMaxCount = 0
  /\ retryTimeout = "zero"
  /\ backendFails = <<>>
  /\ lbReq = <<>>
  /\ chains = <<>>
  /\ rulePc = "idle"
  /\ ruleIdx = 1
  /\ matcherCalls = <<>>
  /\ stageCalls = <<>>
  /\ ruleResult = RuleNoResult
  /\ conf = NoConf
  /\ confUpdates = 0
  /\ orgModelEngine = [o \in Orgs |-> NoEngine]
  /\ nextEngine = 1
  /\ compCalls = 0
  /\ gr = [g \in Goroutines |-> GrIdle]
  /\ bodyPc = "none"
  /\ body = NoBody
  /\ stream = NoStream
  /\ lastCall = NoCall
  /\ pendingParsed = NilVal
  /\ parseCalls = 0
  /\ upLines = <<>>
  /\ upEnds = FALSE
  /\ upRead = 0
  /\ prodPc = "idle"
  /\ bodyBuffer = <<>>
  /\ metaBuffer = NoMeta
  /\ prodChunk = NoChunk
  /\ rwPc = "none"
  /\ rwChunk = NoChunk
  /\ hPc = "idle"
  /\ written = <<>>
  /\ reqCtxDone = FALSE
  /\ streamCtxDone = FALSE
  /\ rwCtxDone = FALSE
  /\ chClosed = FALSE
  /\ respBodyClosed = FALSE
  /\ sChain = <<>>
  /\ sBackend = BackendAnswer("ok", NoHeader)
  /\ sPc = "idle"
  /\ sIdx = 1
  /\ sBackendCalls = 0
  /\ sErr = NilErr
  /\ client = NoClientResp
  /\ mEvery = 0
  /\ mHasReplacement = FALSE
  /\ mPc = "idle"
  /\ mRecv = 0
  /\ chunkBuffer = <<>>
  /\ chunkCountSinceLast = 0
  /\ mFailed = ""
  /\ mFlushed = 0
  /\ mOut = <<>>
  /\ allowCalls = <<>>
  /\ mSrcClosed = FALSE
  /\ mOutClosed = FALSE
  /\ mCtxDone = FALSE
  /\ rStages = "none"
  /\ prog = "nil"
  /\ codeOk = TRUE
  /\ eClient = "nil"
  /\ rrBackends = <<>>
  /\ mu = 0
  /\ gPc = [g \in Callers |-> "idle"]
  /\ pcmPc = <<>>
  /\ pcmArg = <<>>
  /\ cliMap = <<>>
  /\ cliMapKeys = {}
  /\ pcmClients = 1
  /\ pcmMu = 0
  /\ pcmGot = {}
  /\ pcmCalls = 0
  /\ nsResp = <<>>
  /\ nsMsg = NoMessage
  /\ rtPc = "none"
  /\ rtKinds = <<>>
  /\ rtFails = <<>>
  /\ rtMax = 0
  /\ rtBackends = <<>>
  /\ rtReq = ClientRequest
  /\ rtHanded = <<>>
  /\ rtRetry = 0
  /\ rtResult = "none"
  /\ rwPolicy = <<>>
  /\ rwIn = [k \in RewriteKeys |-> "absent"]
  /\ rwOut = [k \in RewriteKeys |-> "absent"]
  /\ ssePc = "idle"
  /\ sseN = 0
  /\ sseBody = <<>>
  /\ sseMeta = NoSseMeta
  /\ sseSince = <<>>
  /\ sseChunk = <<>>
  /\ sseFrom = <<>>
  /\ repoPc = "idle"
  /\ repoConf = <<>>
  /\ repoGlobal0 = NilMap
  /\ repoGlobal = NilMap
  /\ repoFinal = <<>>
  /\ hhPc = "idle"
  /\ hRes = [kind |-> "empty", status |-> 200, chunks |-> 0]
  /\ hW = NewWriter
  /\ hErr = NoHandlerError
  /\ hLeft = 0

SpecConv == Init /\ [][ConvNext]_vars

\* The goroutine takes every step it can take, the upstream producer ends its
\* stream, and the consumer receives as long as it has not stopped.
SpecConvLive ==
  /\ Init /\ [][ConvLiveNext]_vars
  /\ WF_vars(ConvRecvCancelled) /\ WF_vars(ConvRecvChunk) /\ WF_vars(ConvRecvBad)
  /\ WF_vars(ConvRecvDone) /\ WF_vars(ConvLoopEnd) /\ WF_vars(ConvSrcClose)
  /\ WF_vars(ConvCloseOut) /\ WF_vars(UpstreamClose) /\ WF_vars(ConvSend)

SpecWRR == Init /\ [][WrrNext]_vars

SpecLB == Init /\ [][LbNext]_vars

SpecRule == Init /\ [][RuleNext]_vars

SpecComposerFixed == Init /\ [][CompFixedNext]_vars

SpecComposer == Init /\ [][CompNext]_vars

SpecBody == Init /\ [][BodyNext]_vars

\* Every goroutine takes the steps it can take; upstream, the cancellation
\* of the request and a consumer leaving early are not forced.
SpecPipe ==
  /\ Init /\ [][PipeNext]_vars
  /\ WF_vars(ProdScan) /\ WF_vars(ProdScanEnd) /\ WF_vars(ProdSendCancelled)
  /\ WF_vars(ProdSendToHandler) /\ WF_vars(ProdSendToRewriter)
  /\ WF_vars(RwSendToHandler) /\ WF_vars(RwSendCancelled) /\ WF_vars(RwSrcEnd)
  /\ WF_vars(HandlerStreamEnd)


SpecServe == Init /\ [][ServeNext]_vars

SpecMod == Init /\ [][ModNext]_vars

SpecRace == Init /\ [][RaceNext]_vars

SpecPcm == Init /\ [][PcmNext]_vars

SpecNonStream == Init /\ [][NsNext]_vars

SpecRetry == Init /\ [][RetryNext]_vars

SpecRewrite == Init /\ [][RwNext]_vars

SpecSse == Init /\ [][SseNext]_vars

SpecRepo == Init /\ [][RepoNext]_vars

SpecHandler == Init /\ [][HhNext]_vars

=========================================================================
